---- MODULE Spec2Model ----
(***************************************************************************)
(* Ray-tracing resource core of mystralnative: the resource tables, the    *)
(* acceleration-structure builder and the trace dispatcher of the two      *)
(* vendor backends present in the source, VulkanRTBackend                  *)
(* (src/src/raytracing/vulkan_rt.cpp) and DXRBackend                       *)
(* (src/src/raytracing/dxr_rt.cpp).                                        *)
(*                                                                         *)
(* One backend instance is modelled.  `backend` says which class it is;    *)
(* every public entry point of each class is one action.  The caller is    *)
(* the environment: it calls the entry points in any order, with handles   *)
(* it has received earlier (live or stale) or the default handle {0,null}. *)
(* The GPU driver is the environment too: every object creation may fail,  *)
(* at most MaxFaults times per run, and initialize() may fail at most      *)
(* MaxInitializeFaults times.  A run is MaxCalls public calls long.        *)
(*                                                                         *)
(* A pointer is modelled by the id of the record it was taken from:        *)
(* handle._handle = i means "the address of the record that create*        *)
(* inserted under id i", NULL = 0.  Reading through a pointer whose record *)
(* has been erased is undefined behaviour; the model flags it (uaf) and    *)
(* lets the value read be the old content, the content of another record  *)
(* that reuses the memory, or garbage.  The outcome in which such a read   *)
(* stops the process is not modelled: a run goes on after it.  A call that *)
(* ends the process by a write past a buffer or a call through a null      *)
(* pointer leaves backend = "crashed": no call follows it.                 *)
(***************************************************************************)
EXTENDS Integers, Sequences, FiniteSets, TLC

\* ------------------------------------------------------------------ bounds
MaxGeometryIds == 2     \* createGeometry succeeds at most this many times
MaxBLASIds == 2         \* createBLAS succeeds at most this many times
MaxTLASIds == 2         \* createTLAS succeeds at most this many times
MaxCount == 1           \* longest handle / instance array a caller passes
MaxFaults == 1          \* GPU object creations the driver fails per run
MaxInitializeFaults == 2 \* runs of initialize() that fail per run
MaxCalls == 5           \* public calls the caller makes per run

\* ------------------------------------------------------- program constants
TwoPow24 == 16777216
VertexStride == 12
NULL == 0

VARIABLES
    backend,            \* "Vulkan" | "DXR": the class of this instance
    initialized_,       \* bool initialized_
    rtSupported_,       \* bool rtSupported_
    initObjects,        \* members set by initialize() that hold an object
    leaked,             \* ghost: objects of this run no member refers to, never released
    geometries_,        \* id -> geometry record
    blases_,            \* id -> BLAS record
    tlases_,            \* id -> TLAS record
    nextGeometryId_,
    nextBLASId_,
    nextTLASId_,
    outputImage_,       \* Vulkan: VkImage; DXR: outputTexture_
    outputImageMemory_, \* Vulkan only
    outputImageView_,   \* Vulkan only
    stagingBuffer_,     \* Vulkan: stagingBuffer_; DXR: readbackBuffer_
    outputWidth_,
    outputHeight_,
    lastExtent,         \* ghost: <<width, height>> of the last trace recorded, <<>> if none
    issued,             \* ghost: ids each table has returned to the caller
    destroyed,          \* ghost: ids each table has erased through destroy*
    faults,             \* environment: creations failed so far
    calls,              \* environment: public calls made so far
    lastOp,             \* observation of the last public call
    compiled,           \* createRTBackend: the MYSTRAL_HAS_* macros defined
    probes,             \* createRTBackend: <<class, initialize() result>> per probe
    product,            \* createRTBackend: class of the backend returned, "none" before
    sbtDevice,          \* createShaderBindingTable: what the device reports
    sbtRegions,         \* createShaderBindingTable: the three regions built
    instanceIn,         \* instance conversion: the RTTLASInstance supplied
    instanceOut         \* instance conversion: the instance record written

tableVars == <<geometries_, blases_, tlases_>>
counterVars == <<nextGeometryId_, nextBLASId_, nextTLASId_>>
outputVars == <<outputImage_, outputImageMemory_, outputImageView_,
                stagingBuffer_, outputWidth_, outputHeight_, lastExtent>>
ghostVars == <<issued, destroyed>>
lifecycleVars == <<backend, initialized_, rtSupported_, initObjects, leaked>>
factoryVars == <<compiled, probes, product>>
sbtVars == <<sbtDevice, sbtRegions>>
conversionVars == <<instanceIn, instanceOut>>
\* The variables a public call on a backend instance never touches.
otherVars == <<factoryVars, sbtVars, conversionVars>>
instanceVars == <<lifecycleVars, tableVars, counterVars, outputVars,
                  ghostVars, faults, calls, lastOp>>
vars == <<instanceVars, otherVars>>

\* ----------------------------------------------------------------- handles
\* RTGeometryHandle / RTBLASHandle / RTTLASHandle: { _id, _handle }
InvalidHandle == [_id |-> 0, _handle |-> NULL]

\* handle._handle = table[id].get(); handle._id = id
MakeHandle(id) == [_id |-> id, _handle |-> id]

\* The handles a caller can pass for a table: the default one and every one
\* that table has returned, whether its record is still there or not.
CallerHandles(t) == {InvalidHandle} \cup {MakeHandle(i) : i \in issued[t]}

\* table.find(id) != table.end()
Present(table, id) == id \in DOMAIN table

\* A cached pointer that no longer points at a record of the table.
Dangling(table, ptr) == ptr # NULL /\ ptr \notin DOMAIN table

\* table.erase(it)  (variant EraseAll: table.clear())
EraseAll(table, id) == <<>>
Erase(table, id) == [i \in (DOMAIN table) \ {id} |-> table[i]]

\* table[id] = std::move(record)
Insert(table, id, rec) == [i \in (DOMAIN table) \cup {id} |->
                              IF i = id THEN rec ELSE table[i]]

\* ------------------------------------------------------------ id allocation
\* uint32_t id = nextXId_++  : the value the expression yields ...
\* (variant: the value before the last increment, i.e. the previous id)
IssueIdStale(next) == IF next > 1 THEN next - 1 ELSE next
IssueId(next) == next

\* ... and the counter after the post-increment.  The counters are uint32_t;
\* they stay below the id bounds here, far from the wrap at 2^32.
\* (variant: the counter does not advance)
KeepCounter(next) == next
\* (variant: the counter skips an id)
PostIncrementByTwo(next) == next + 2
PostIncrement(next) == next + 1

\* --------------------------------------------------------------- GPU events
\* What a call does to the GPU, in call order.
EvCreate(what, ok) == <<"create", what, ok>>
EvRelease(what) == <<"release", what>>
EvBuild(what, mode, n) == <<"build", what, mode, n>>
EvReleaseDangling(what) == <<"release-dangling", what>>
EvDispatch(w, h) == <<"dispatch", w, h>>
EvCopy(w, h) == <<"copy", w, h>>
EvBarrier(what) == <<"barrier", what>>
EvBind(what) == <<"bind", what>>
EvSubmit == <<"submit">>
EvWait == <<"wait">>
EvIdle == <<"idle">>

\* The caller may make another call.
CanCall == calls < MaxCalls

\* What the caller and the driver see of one call.  arg holds the arguments
\* as far as the call read them before it returned.
Observe(op, arg, result, uaf, trace) ==
    /\ calls' = calls + 1
    /\ lastOp' = [op |-> op, arg |-> arg, result |-> result, uaf |-> uaf,
                  trace |-> trace]

\* A call that returns before touching any member.
NoEffect == UNCHANGED <<lifecycleVars, tableVars, counterVars,
                        outputVars, ghostVars, faults>>

\* ------------------------------------------------------------- environment
\* The driver's answer to a creation whose parameters are valid: it may fail
\* while the fault budget lasts.
CreationOutcomes == IF faults < MaxFaults THEN {TRUE, FALSE} ELSE {TRUE}

\* The step of a checked creation sequence of n steps at which the driver
\* fails, 0 for none.
FailPoints(n) == IF faults < MaxFaults THEN 0..n ELSE {0}

\* The member of an initialization sequence of n members at which a run of
\* initialize() fails, 0 for none.  Before initialize() has succeeded no
\* other call creates anything, so `faults` counts the failed runs.
InitializeFailPoints(n) == IF faults < MaxInitializeFaults THEN 0..n ELSE {0}

\* A value that stands for the bytes of a reused heap chunk: no address of
\* a record of the model.
FreedBytes == 999

\* Reading the address member of a BLAS record through a dangling pointer:
\* the old content if the allocator has not reused the chunk, 0, the address
\* of a BLAS of the table whose record was placed in the chunk, or whatever
\* bytes the chunk holds now.
ReadFreed(old) == {old, NULL, FreedBytes} \cup DOMAIN blases_

\* ------------------------------------------------------------ caller inputs
\* RTGeometryDesc: vertices (never null here), vertexCount, vertexStride,
\* indices (null or not), indexCount.
GeometryDescs ==
    { [vertexCount |-> d[1], vertexStride |-> VertexStride,
       indices |-> d[2], indexCount |-> d[3]] :
        d \in {<<3, FALSE, 0>>, <<0, FALSE, 0>>, <<3, TRUE, 3>>,
               <<3, FALSE, 3>>} }

\* Arrays of up to MaxCount elements of S.
Arrays(S) == UNION { [1..n -> S] : n \in 0..MaxCount }

Identity16 == <<1, 0, 0, 0,  0, 1, 0, 0,  0, 0, 1, 0,  0, 0, 0, 1>>
Distinct16 == <<10, 11, 12, 13,  14, 15, 16, 17,
                18, 19, 20, 21,  22, 23, 24, 25>>

\* RTTLASInstance: { transform[16], blas, instanceId, mask }
Instance(t, h) ==
    [transform |-> t.transform, blas |-> h, instanceId |-> t.instanceId,
     mask |-> t.mask]

TemplateA == [transform |-> Distinct16, instanceId |-> TwoPow24 + 5, mask |-> 1]
TemplateB == [transform |-> Identity16, instanceId |-> 1, mask |-> 255]

\* The instance arrays a caller passes: up to MaxCount instances, each
\* referring to any BLAS handle the caller holds; TemplateA and TemplateB
\* alternate along the array.
InstanceArrays ==
    UNION { { [i \in 1..n |->
                 Instance(IF i % 2 = 1 THEN TemplateA ELSE TemplateB, hs[i])] :
              hs \in [1..n -> CallerHandles("blas")] }
            : n \in 0..MaxCount }

\* TraceRaysOptions: (width, height); the tlas handle is chosen separately.
Sizes == {<<0, 0>>, <<1, 2>>, <<64, 1>>}

\* -------------------------------------------------------------- GPU objects
\* VulkanBuffer / DXRBuffer: buffer is "live" or "null"; size as requested;
\* deviceAddress (gpuAddress on DXR) is TRUE when the field holds the address
\* of the allocation and FALSE when it holds its default, 0.
NullBuffer == [buffer |-> "null", size |-> 0, deviceAddress |-> FALSE]

\* A buffer createBuffer made with VK_BUFFER_USAGE_SHADER_DEVICE_ADDRESS_BIT
\* (every buffer of a record, sbtBuffer_, cameraUBO_), or any buffer
\* DXRBackend::createBuffer made: the address is read and stored.
LiveBuffer(size) == [buffer |-> "live", size |-> size, deviceAddress |-> TRUE]

\* The buffer traceRays makes for the read-back.  Vulkan: stagingBuffer_,
\* created with VK_BUFFER_USAGE_TRANSFER_DST_BIT only, so createBuffer does
\* not read an address; DXR: readbackBuffer_, created by
\* CreateCommittedResource directly, which assigns resource and size only.
\* A failed creation leaves the handle null and the size assigned.
StagingBuffer(ok, size) ==
    [buffer |-> IF ok THEN "live" ELSE "null", size |-> size,
     deviceAddress |-> FALSE]

\* ===================================================================== Init
\* The members and ghosts of a newly constructed instance, before any call.
NewInstance ==
    /\ initialized_ = FALSE
    /\ rtSupported_ = FALSE
    /\ initObjects = {}
    /\ leaked = {}
    /\ geometries_ = <<>>
    /\ blases_ = <<>>
    /\ tlases_ = <<>>
    /\ nextGeometryId_ = 1
    /\ nextBLASId_ = 1
    /\ nextTLASId_ = 1
    /\ outputImage_ = "null"
    /\ outputImageMemory_ = "null"
    /\ outputImageView_ = "null"
    /\ stagingBuffer_ = NullBuffer
    /\ outputWidth_ = 0
    /\ outputHeight_ = 0
    /\ lastExtent = <<>>
    /\ issued = [t \in {"geometry", "blas", "tlas"} |-> {}]
    /\ destroyed = [t \in {"geometry", "blas", "tlas"} |-> {}]
    /\ faults = 0
    /\ calls = 0
    /\ lastOp = [op |-> "construct", arg |-> <<>>, result |-> "void",
                 uaf |-> FALSE, trace |-> <<>>]

\* No createRTBackend() call is in progress.
NoFactory ==
    /\ compiled = {}
    /\ probes = <<>>
    /\ product = "none"

\* No shader binding table is being built.
NoSBT ==
    /\ sbtDevice = <<>>
    /\ sbtRegions = <<>>

\* No instance is being converted.
NoConversion ==
    /\ instanceIn = <<>>
    /\ instanceOut = <<>>

\* The state after construction: default member initializers of
\* VulkanRTBackend (vulkan_rt.h) and DXRBackend (dxr_rt.h).
Init ==
    /\ backend \in {"Vulkan", "DXR"}
    /\ NewInstance
    /\ NoFactory
    /\ NoSBT
    /\ NoConversion

\* The default member initializers again, as the next state: the members of
\* a newly constructed instance, or of no instance at all.
DefaultMembers ==
    /\ initialized_' = FALSE
    /\ rtSupported_' = FALSE
    /\ initObjects' = {}
    /\ geometries_' = <<>>
    /\ blases_' = <<>>
    /\ tlases_' = <<>>
    /\ nextGeometryId_' = 1
    /\ nextBLASId_' = 1
    /\ nextTLASId_' = 1
    /\ outputImage_' = "null"
    /\ outputImageMemory_' = "null"
    /\ outputImageView_' = "null"
    /\ stagingBuffer_' = NullBuffer
    /\ outputWidth_' = 0
    /\ outputHeight_' = 0
    /\ lastExtent' = <<>>

\* The orders in which a range-for over an unordered_map may visit the keys S.
Orders(S) ==
    { f \in [1..Cardinality(S) -> S] :
        \A i, j \in 1..Cardinality(S) : i # j => f[i] # f[j] }

RECURSIVE Flatten(_)
Flatten(ss) == IF ss = <<>> THEN <<>> ELSE Head(ss) \o Flatten(Tail(ss))

\* The release events of the members named in `order` that hold an object.
MemberReleases(order) ==
    Flatten([i \in 1..Len(order) |->
                IF order[i] \in initObjects THEN <<EvRelease(order[i])>>
                ELSE <<>>])

\* ============================================================ VulkanRTBackend
\* bool VulkanRTBackend::createBuffer(size, ...): the values it can return.
\* A zero-sized vkCreateBuffer is invalid usage, so the driver may accept or
\* refuse it whatever the fault budget.
VulkanRTBackend_createBuffer(size) ==
    IF size = 0 THEN {TRUE, FALSE} ELSE CreationOutcomes

\* The injected faults among the answers `oks` to creations of sizes `sizes`.
RECURSIVE Injected(_, _)
Injected(oks, sizes) ==
    IF oks = <<>> THEN 0
    ELSE (IF ~Head(oks) /\ Head(sizes) # 0 THEN 1 ELSE 0)
         + Injected(Tail(oks), Tail(sizes))

\* The members VulkanRTBackend::initialize() sets, in the order its steps
\* set them: createInstance, createDevice, createCommandPool,
\* createDescriptorPool (pool, then set layout), createRTPipeline (layout,
\* then pipeline), createShaderBindingTable, createBuffer(cameraUBO_).
VulkanInitMembers ==
    <<"instance_", "device_", "commandPool_", "descriptorPool_",
      "descriptorSetLayout_", "pipelineLayout_", "rtPipeline_", "sbtBuffer_",
      "cameraUBO_">>

\* The first n members of an initialization sequence.
Prefix(members, n) == {members[i] : i \in 1..n}

\* The members a run of initialize() has set when it returns: all of them
\* when no step failed, those before member failStep when its creation, or a
\* check made before it, failed.  No step releases what earlier steps made.
MembersSet(members, failStep) ==
    IF failStep = 0 THEN Prefix(members, Len(members))
    ELSE Prefix(members, failStep - 1)

\* The three VkShaderModule locals of createRTPipeline(): raygenModule,
\* missModule, closestHitModule.  No member holds them.
VulkanShaderModules == {"raygenModule", "missModule", "closestHitModule"}

\* The shader modules that stay alive, held by nothing, when initialize()
\* returns after failing at member failStep, as the sets createRTPipeline()
\* may lose.  The three modules are created first and tested together, then
\* the pipeline layout is created; both tests are a bare `return false`.
\* The modules that were created, any of them when a module creation
\* failed and all three when the layout creation failed, are destroyed
\* only after vkCreateRayTracingPipelinesKHR_, before its result is tested.
VulkanRTBackend_createRTPipeline_unheld(failStep) ==
    IF failStep # 0 /\ VulkanInitMembers[failStep] = "pipelineLayout_"
    THEN SUBSET VulkanShaderModules
    ELSE {{}}

\* bool VulkanRTBackend::isSupported()
VulkanRTBackend_isSupported == initialized_ /\ rtSupported_

\* The value initialize() leaves in initialized_ and rtSupported_: both are
\* assigned true after the last checked step and nowhere else.
\* (variant FlagsSetBeforeSteps: assigned before the first step)
FlagsSetBeforeSteps(failStep) == TRUE
VulkanRTBackend_initialize_flags(failStep) == failStep = 0

\* The members a run that failed at member failStep leaves null although
\* they held an object before the call.  Every member is the output
\* parameter of its vkCreate* call (&instance_, &device_, ..., and
\* &buffer.buffer in createBuffer): a creation that fails may store
\* VK_NULL_HANDLE there or leave it untouched, as the driver does, and
\* createBuffer stores VK_NULL_HANDLE itself when vkAllocateMemory fails.
\* The steps that fail before their vkCreate* call (no physical device, a
\* missing extension function, a shader module that was not created) leave
\* the member as it was.
VulkanRTBackend_initialize_drops(failStep) ==
    IF failStep = 0 THEN {{}}
    ELSE {{}, {VulkanInitMembers[failStep]}}

\* bool VulkanRTBackend::initialize(): `if (initialized_) return rtSupported_`,
\* then nine creations, each checked, then initialized_ = rtSupported_ = true.
\* Every member is a raw Vulkan handle: a creation stores the new handle over
\* whatever the member held, and nothing releases the object it held.
VulkanRTBackend_initialize ==
    /\ CanCall
    /\ UNCHANGED otherVars
    /\ backend = "Vulkan"
    /\ IF initialized_
       THEN /\ NoEffect
            /\ Observe("initialize", <<>>, rtSupported_, FALSE, <<>>)
       ELSE \E failStep \in InitializeFailPoints(Len(VulkanInitMembers)) :
            \E unheld \in VulkanRTBackend_createRTPipeline_unheld(failStep) :
            \E drops \in VulkanRTBackend_initialize_drops(failStep) :
            LET set == MembersSet(VulkanInitMembers, failStep) IN
            /\ initialized_' = VulkanRTBackend_initialize_flags(failStep)
            /\ rtSupported_' = VulkanRTBackend_initialize_flags(failStep)
            /\ initObjects' = (initObjects \ drops) \cup set
            /\ leaked' = leaked \cup (initObjects \cap (set \cup drops)) \cup unheld
            /\ faults' = faults + (IF failStep = 0 THEN 0 ELSE 1)
            /\ Observe("initialize", <<>>, failStep = 0, FALSE, <<>>)
            /\ UNCHANGED <<backend, tableVars, counterVars, outputVars,
                           ghostVars>>

\* The guard of createGeometry: only the initialized_ test.
\* (variant CreateGeometryNeverRejects: no guard at all)
CreateGeometryNeverRejects(desc) == FALSE
VulkanRTBackend_createGeometry_rejects(desc) == ~initialized_

\* RTGeometryHandle VulkanRTBackend::createGeometry(const RTGeometryDesc&)
VulkanRTBackend_createGeometry ==
    /\ CanCall
    /\ UNCHANGED otherVars
    /\ backend = "Vulkan"
    /\ nextGeometryId_ <= MaxGeometryIds
    /\ \E desc \in GeometryDescs :
       IF VulkanRTBackend_createGeometry_rejects(desc)
       THEN /\ NoEffect
            /\ Observe("createGeometry", <<>>, InvalidHandle, FALSE, <<>>)
       ELSE
       LET vbSize == desc.vertexCount * desc.vertexStride
           indexed == desc.indices /\ desc.indexCount > 0
       IN
       \E vbOk \in VulkanRTBackend_createBuffer(vbSize) :
       \E ibOk \in (IF vbOk /\ indexed THEN CreationOutcomes ELSE {TRUE}) :
       LET id == IssueId(nextGeometryId_)
           rec == [vertexBuffer |-> LiveBuffer(vbSize),
                   indexBuffer |-> IF indexed THEN LiveBuffer(desc.indexCount * 4)
                                   ELSE NullBuffer,
                   vertexCount |-> desc.vertexCount,
                   indexCount |-> desc.indexCount,
                   vertexStride |-> desc.vertexStride]
       IN
       /\ faults' = faults + Injected(<<vbOk, ibOk>>, <<vbSize, 1>>)
       /\ UNCHANGED <<lifecycleVars, blases_, tlases_, nextBLASId_,
                      nextTLASId_, outputVars, destroyed>>
       /\ IF ~vbOk
          THEN /\ Observe("createGeometry", desc, InvalidHandle, FALSE,
                          <<EvCreate("vertexBuffer", FALSE)>>)
               /\ UNCHANGED <<geometries_, nextGeometryId_, issued>>
          ELSE IF ~ibOk
          THEN /\ Observe("createGeometry", desc, InvalidHandle, FALSE,
                          <<EvCreate("vertexBuffer", TRUE),
                            EvCreate("indexBuffer", FALSE),
                            EvRelease("vertexBuffer")>>)
               /\ UNCHANGED <<geometries_, nextGeometryId_, issued>>
          ELSE /\ nextGeometryId_' = PostIncrement(nextGeometryId_)
               /\ geometries_' = Insert(geometries_, id, rec)
               /\ issued' = [issued EXCEPT !["geometry"] = @ \cup {id}]
               /\ Observe("createGeometry", desc, MakeHandle(id), FALSE,
                          <<EvCreate("vertexBuffer", TRUE)>> \o
                          (IF indexed THEN <<EvCreate("indexBuffer", TRUE)>>
                           ELSE <<>>))

\* The events of destroyBuffer(buffer): a release when the buffer is not null.
DestroyBufferEvents(buffer, what) ==
    IF buffer.buffer # "null" THEN <<EvRelease(what)>> ELSE <<>>

\* void VulkanRTBackend::destroyGeometry(RTGeometryHandle)
VulkanRTBackend_destroyGeometry ==
    /\ CanCall
    /\ UNCHANGED otherVars
    /\ backend = "Vulkan"
    /\ \E geometry \in CallerHandles("geometry") :
       IF Present(geometries_, geometry._id)
       THEN /\ geometries_' = Erase(geometries_, geometry._id)
            /\ destroyed' = [destroyed EXCEPT !["geometry"] = @ \cup {geometry._id}]
            /\ Observe("destroyGeometry", geometry, "void", FALSE,
                       DestroyBufferEvents(geometries_[geometry._id].vertexBuffer,
                                           "vertexBuffer") \o
                       DestroyBufferEvents(geometries_[geometry._id].indexBuffer,
                                           "indexBuffer"))
            /\ UNCHANGED <<lifecycleVars, blases_, tlases_, counterVars,
                           outputVars, issued, faults>>
       ELSE /\ NoEffect
            /\ Observe("destroyGeometry", geometry, "void", FALSE, <<>>)

\* A handle id that was issued once and is no longer in `table`.
Stale(table, id) == id # 0 /\ id \notin DOMAIN table

\* What is observed of a handle array argument: its count, whether some
\* element the call reached carries a stale id, and whether some element it
\* reached is the default handle.
ArrayArg(count, ids, table) ==
    [count |-> count, stale |-> \E i \in DOMAIN ids : Stale(table, ids[i]),
     null |-> \E i \in DOMAIN ids : ids[i] = InvalidHandle._id]

\* The arguments of a create call that returned at its guard: count was
\* read only if initialized_ was true.
CountRead(count) == [count |-> IF initialized_ THEN count ELSE "unread",
                     stale |-> FALSE]

\* if (!geom) continue;
NonNull(h) == h._handle # NULL

\* The guard of createBLAS and of createTLAS: !initialized_ || count == 0.
\* (variant CreateRejectsNoCountTest: without the count test)
CreateRejectsNoCountTest(count) == ~initialized_
VulkanRTBackend_createAS_rejects(count) == ~initialized_ \/ count = 0

\* The command buffer of a Vulkan build or refit:
\* beginSingleTimeCommands, vkCmdBuildAccelerationStructuresKHR_,
\* endSingleTimeCommands (vkQueueSubmit, vkQueueWaitIdle).  Nothing is
\* recorded between the build and the end of the command buffer.
\* (variant BuildCommandsNoWait: the submit is not waited for)
BuildCommandsNoWait(what, mode, n) ==
    <<EvBuild(what, mode, n), EvSubmit>>
VulkanRTBackend_buildCommands(what, mode, n) ==
    <<EvBuild(what, mode, n), EvSubmit, EvWait>>

\* What createBLAS releases before it returns the invalid handle, by the
\* step that failed: nothing when the buffer failed, the buffer when the
\* acceleration structure failed, the structure and the buffer when the
\* scratch buffer failed.
\* (variant CreateBLASUnwindsBufferOnly: the acceleration structure is not
\* destroyed when the scratch buffer fails)
CreateBLASUnwindsBufferOnly(failAt) ==
    IF failAt >= 2 THEN <<EvRelease("blas.buffer")>> ELSE <<>>
VulkanRTBackend_createBLAS_unwinds(failAt) ==
    CASE failAt = 1 -> <<>>
      [] failAt = 2 -> <<EvRelease("blas.buffer")>>
      [] failAt = 3 -> <<EvRelease("blas.as"), EvRelease("blas.buffer")>>

\* RTBLASHandle VulkanRTBackend::createBLAS(RTGeometryHandle*, size_t count)
VulkanRTBackend_createBLAS ==
    /\ CanCall
    /\ UNCHANGED otherVars
    /\ backend = "Vulkan"
    /\ nextBLASId_ <= MaxBLASIds
    /\ \E geometries \in Arrays(CallerHandles("geometry")) :
       LET count == Len(geometries) IN
       IF VulkanRTBackend_createAS_rejects(count)
       THEN /\ NoEffect
            /\ Observe("createBLAS", CountRead(count), InvalidHandle, FALSE, <<>>)
       ELSE
       LET used == SelectSeq(geometries, NonNull)
           \* geom = static_cast<VulkanGeometry*>(geometries[i]._handle), then
           \* geom->vertexBuffer, geom->vertexCount, ... are read
           uaf == \E i \in 1..Len(used) : Dangling(geometries_, used[i]._handle)
           arg == ArrayArg(count, [i \in 1..count |-> geometries[i]._id],
                           geometries_)
           id == IssueId(nextBLASId_)
           rec == [accelerationStructure |-> "live",
                   buffer |-> LiveBuffer(1),
                   deviceAddress |-> id,
                   geometryIds |-> [i \in 1..Len(used) |-> used[i]._id]]
       IN
       \E failAt \in FailPoints(3) :
       /\ faults' = faults + (IF failAt = 0 THEN 0 ELSE 1)
       /\ UNCHANGED <<lifecycleVars, geometries_, tlases_,
                      nextGeometryId_, nextTLASId_, outputVars, destroyed>>
       /\ IF failAt # 0
          THEN /\ UNCHANGED <<blases_, nextBLASId_, issued>>
               /\ Observe("createBLAS", arg,
                          InvalidHandle, uaf,
                    (CASE failAt = 1 -> <<EvCreate("blas.buffer", FALSE)>>
                       [] failAt = 2 -> <<EvCreate("blas.buffer", TRUE),
                                          EvCreate("blas.as", FALSE)>>
                       [] failAt = 3 -> <<EvCreate("blas.buffer", TRUE),
                                          EvCreate("blas.as", TRUE),
                                          EvCreate("scratch", FALSE)>>)
                    \o VulkanRTBackend_createBLAS_unwinds(failAt))
          ELSE /\ nextBLASId_' = PostIncrement(nextBLASId_)
               /\ blases_' = Insert(blases_, id, rec)
               /\ issued' = [issued EXCEPT !["blas"] = @ \cup {id}]
               /\ Observe("createBLAS", arg,
                          MakeHandle(id), uaf,
                          <<EvCreate("blas.buffer", TRUE),
                            EvCreate("blas.as", TRUE),
                            EvCreate("scratch", TRUE)>> \o
                            VulkanRTBackend_buildCommands("blas", "build", Len(used)) \o
                            <<EvRelease("scratch")>>)

\* The events of `if (as != VK_NULL_HANDLE) vkDestroyAccelerationStructureKHR_`.
DestroyASEvents(as, what) ==
    IF as # "null" THEN <<EvRelease(what)>> ELSE <<>>

\* The BLAS ids the instance records of the TLAS table refer to: the device
\* address of a BLAS is modelled by its id.
ReferencedBLAS ==
    UNION {{tlases_[t].instances[i].accelerationStructureReference :
               i \in DOMAIN tlases_[t].instances} : t \in DOMAIN tlases_} \ {0}

\* The test of destroyBLAS: `it != blases_.end()`, nothing else.
\* (variant DestroyBLASUnlessReferenced: a BLAS that a TLAS instance refers
\* to is kept)
DestroyBLASUnlessReferenced(blas) ==
    Present(blases_, blas._id) /\ blas._id \notin ReferencedBLAS
VulkanRTBackend_destroyBLAS_finds(blas) == Present(blases_, blas._id)

\* void VulkanRTBackend::destroyBLAS(RTBLASHandle)
VulkanRTBackend_destroyBLAS ==
    /\ CanCall
    /\ UNCHANGED otherVars
    /\ backend = "Vulkan"
    /\ \E blas \in CallerHandles("blas") :
       IF VulkanRTBackend_destroyBLAS_finds(blas)
       THEN /\ blases_' = Erase(blases_, blas._id)
            /\ destroyed' = [destroyed EXCEPT !["blas"] = @ \cup {blas._id}]
            /\ Observe("destroyBLAS", blas, "void", FALSE,
                       DestroyASEvents(blases_[blas._id].accelerationStructure,
                                       "blas.as") \o
                       DestroyBufferEvents(blases_[blas._id].buffer, "blas.buffer"))
            /\ UNCHANGED <<lifecycleVars, geometries_, tlases_,
                           counterVars, outputVars, issued, faults>>
       ELSE /\ NoEffect
            /\ Observe("destroyBLAS", blas, "void", FALSE, <<>>)

\* The conversion without the transposition: the first twelve elements taken
\* in storage order.
ConvertTransformInOrder(transform) ==
    [row \in 0..2 |-> [col \in 0..3 |-> transform[row * 4 + col + 1]]]

\* The 3x4 row-major matrix both backends store:
\* matrix[row][col] = inst.transform[col * 4 + row]
ConvertTransform(transform) ==
    [row \in 0..2 |-> [col \in 0..3 |-> transform[col * 4 + row + 1]]]

\* One VkAccelerationStructureInstanceKHR / D3D12_RAYTRACING_INSTANCE_DESC
\* as the loop body of createTLAS and updateTLAS fills it.
ConvertInstance(inst, ref) ==
    [transform |-> ConvertTransform(inst.transform),
     instanceCustomIndex |-> inst.instanceId % TwoPow24,
     mask |-> inst.mask,
     accelerationStructureReference |-> ref]

\* An element of std::vector<...>(count) the loop skipped: value-initialized.
ZeroInstance ==
    [transform |-> [row \in 0..2 |-> [col \in 0..3 |-> 0]],
     instanceCustomIndex |-> 0, mask |-> 0,
     accelerationStructureReference |-> 0]

\* blasPtr->deviceAddress (DXR: blasPtr->gpuAddress), the member `address`,
\* for each instance, read through the cached pointer
\* inst.blas._handle: the record's address when the record is there, anything
\* ReadFreed allows when it is not, unused (0) when the pointer is null.
BlasAddressReads(instances, address) ==
    { f \in [1..Len(instances) -> (0..MaxBLASIds) \cup {FreedBytes}] :
        \A i \in 1..Len(instances) :
            LET ptr == instances[i].blas._handle IN
            IF ptr = NULL THEN f[i] = 0
            ELSE IF ptr \in DOMAIN blases_ THEN f[i] = blases_[ptr][address]
            ELSE f[i] \in ReadFreed(ptr) }

\* The index of the first instance whose BLAS pointer is null, 0 if none.
FirstNull(instances) ==
    LET nulls == {i \in 1..Len(instances) : instances[i].blas._handle = NULL}
    IN IF nulls = {} THEN 0 ELSE CHOOSE i \in nulls : \A j \in nulls : i <= j

\* RTTLASHandle VulkanRTBackend::createTLAS(const RTTLASInstance*, size_t)
VulkanRTBackend_createTLAS ==
    /\ CanCall
    /\ UNCHANGED otherVars
    /\ backend = "Vulkan"
    /\ nextTLASId_ <= MaxTLASIds
    /\ \E instances \in InstanceArrays :
       LET count == Len(instances)
           firstNull == FirstNull(instances)
           \* instances the loop reaches before it returns or ends
           reached == IF firstNull = 0 THEN 1..count ELSE 1..(firstNull - 1)
           uaf == \E i \in reached : Dangling(blases_, instances[i].blas._handle)
       IN
       IF VulkanRTBackend_createAS_rejects(count)
       THEN /\ NoEffect
            /\ Observe("createTLAS", CountRead(count), InvalidHandle, FALSE, <<>>)
       ELSE IF firstNull # 0
       THEN /\ NoEffect
            /\ Observe("createTLAS",
                       ArrayArg(count, [i \in 1..firstNull |-> instances[i].blas._id],
                                blases_),
                       InvalidHandle, uaf, <<>>)
       ELSE
       \E refs \in BlasAddressReads(instances, "deviceAddress") :
       \E failAt \in FailPoints(4) :
       LET arg == ArrayArg(count, [i \in 1..count |-> instances[i].blas._id],
                           blases_)
           id == IssueId(nextTLASId_)
           rec == [accelerationStructure |-> "live",
                   buffer |-> LiveBuffer(1),
                   instanceBuffer |-> LiveBuffer(count * 64),
                   instances |-> [i \in 1..count |->
                                     ConvertInstance(instances[i], refs[i])],
                   deviceAddress |-> id,
                   instanceCount |-> count]
       IN
       /\ faults' = faults + (IF failAt = 0 THEN 0 ELSE 1)
       /\ UNCHANGED <<lifecycleVars, geometries_, blases_,
                      nextGeometryId_, nextBLASId_, outputVars, destroyed>>
       /\ IF failAt # 0
          THEN /\ UNCHANGED <<tlases_, nextTLASId_, issued>>
               /\ Observe("createTLAS", arg,
                          InvalidHandle, uaf,
                    CASE failAt = 1 -> <<EvCreate("tlas.instanceBuffer", FALSE)>>
                      [] failAt = 2 -> <<EvCreate("tlas.instanceBuffer", TRUE),
                                         EvCreate("tlas.buffer", FALSE),
                                         EvRelease("tlas.instanceBuffer")>>
                      [] failAt = 3 -> <<EvCreate("tlas.instanceBuffer", TRUE),
                                         EvCreate("tlas.buffer", TRUE),
                                         EvCreate("tlas.as", FALSE),
                                         EvRelease("tlas.buffer"),
                                         EvRelease("tlas.instanceBuffer")>>
                      [] failAt = 4 -> <<EvCreate("tlas.instanceBuffer", TRUE),
                                         EvCreate("tlas.buffer", TRUE),
                                         EvCreate("tlas.as", TRUE),
                                         EvCreate("scratch", FALSE),
                                         EvRelease("tlas.as"),
                                         EvRelease("tlas.buffer"),
                                         EvRelease("tlas.instanceBuffer")>>)
          ELSE /\ nextTLASId_' = PostIncrement(nextTLASId_)
               /\ tlases_' = Insert(tlases_, id, rec)
               /\ issued' = [issued EXCEPT !["tlas"] = @ \cup {id}]
               /\ Observe("createTLAS", arg,
                          MakeHandle(id), uaf,
                          <<EvCreate("tlas.instanceBuffer", TRUE),
                            EvCreate("tlas.buffer", TRUE),
                            EvCreate("tlas.as", TRUE),
                            EvCreate("scratch", TRUE)>> \o
                            VulkanRTBackend_buildCommands("tlas", "build", count) \o
                            <<EvRelease("scratch")>>)

\* The two early returns of updateTLAS: the id is not in tlases_, or count
\* differs from the record's instanceCount.
\* (variant UpdateRejectsNoCountTest: without the count test)
UpdateRejectsNoCountTest(tlas, count) == ~Present(tlases_, tlas._id)
VulkanRTBackend_updateTLAS_rejects(tlas, count) ==
    \/ ~Present(tlases_, tlas._id)
    \/ count # tlases_[tlas._id].instanceCount

\* What updateTLAS writes of the TLAS record it refits: the contents of the
\* mapped instance buffer.  The acceleration structure is the source and the
\* destination of the update, and no member of *tlasPtr is assigned.
\* (variant UpdateTLASRebuilds: the update builds into a new structure)
UpdateTLASRebuilds(rec, newInstances) ==
    [rec EXCEPT !.instances = newInstances, !.deviceAddress = @ + 1]
VulkanRTBackend_updateTLAS_writes(rec, newInstances) ==
    [rec EXCEPT !.instances = newInstances]

\* void VulkanRTBackend::updateTLAS(RTTLASHandle, const RTTLASInstance*, size_t)
VulkanRTBackend_updateTLAS ==
    /\ CanCall
    /\ UNCHANGED otherVars
    /\ backend = "Vulkan"
    /\ \E tlas \in CallerHandles("tlas"), instances \in InstanceArrays :
       LET count == Len(instances)
           arg == [tlas |-> tlas, count |-> count,
                   stale |-> \E i \in 1..count :
                                Stale(blases_, instances[i].blas._id)]
           uaf == \E i \in 1..count : Dangling(blases_, instances[i].blas._handle)
       IN
       IF VulkanRTBackend_updateTLAS_rejects(tlas, count)
       THEN /\ NoEffect
            /\ Observe("updateTLAS",
                       [tlas |-> tlas,
                        count |-> IF Present(tlases_, tlas._id) THEN count
                                  ELSE "unread",
                        stale |-> FALSE],
                       "void", FALSE, <<>>)
       ELSE
       \E refs \in BlasAddressReads(instances, "deviceAddress") :
       \E scratchOk \in CreationOutcomes :
       /\ faults' = faults + (IF scratchOk THEN 0 ELSE 1)
       \* memcpy(data, vkInstances.data(), instanceBufferSize)
       /\ tlases_' = [tlases_ EXCEPT ![tlas._id] =
                        VulkanRTBackend_updateTLAS_writes(@,
                        [i \in 1..count |->
                            IF instances[i].blas._handle = NULL THEN ZeroInstance
                            ELSE ConvertInstance(instances[i], refs[i])])]
       /\ UNCHANGED <<lifecycleVars, geometries_, blases_, counterVars,
                      outputVars, ghostVars>>
       \* the scratch createBuffer is not checked: the build is recorded and
       \* submitted either way
       /\ Observe("updateTLAS", arg, "void", uaf,
                  <<EvCreate("scratch", scratchOk)>> \o
                  VulkanRTBackend_buildCommands("tlas", "update", count) \o
                  (IF scratchOk THEN <<EvRelease("scratch")>> ELSE <<>>))

\* void VulkanRTBackend::destroyTLAS(RTTLASHandle)
VulkanRTBackend_destroyTLAS ==
    /\ CanCall
    /\ UNCHANGED otherVars
    /\ backend = "Vulkan"
    /\ \E tlas \in CallerHandles("tlas") :
       IF Present(tlases_, tlas._id)
       THEN /\ tlases_' = Erase(tlases_, tlas._id)
            /\ destroyed' = [destroyed EXCEPT !["tlas"] = @ \cup {tlas._id}]
            /\ Observe("destroyTLAS", tlas, "void", FALSE,
                       DestroyASEvents(tlases_[tlas._id].accelerationStructure,
                                       "tlas.as") \o
                       DestroyBufferEvents(tlases_[tlas._id].buffer, "tlas.buffer") \o
                       DestroyBufferEvents(tlases_[tlas._id].instanceBuffer,
                                           "tlas.instanceBuffer"))
            /\ UNCHANGED <<lifecycleVars, geometries_, blases_,
                           counterVars, outputVars, issued, faults>>
       ELSE /\ NoEffect
            /\ Observe("destroyTLAS", tlas, "void", FALSE, <<>>)

\* An output handle member (VkImage, VkDeviceMemory, VkImageView) is "null",
\* "live", or "dangling": destroyed but still stored in the member.
ReleaseHandleEvents(status, what) ==
    IF status = "live" THEN <<EvRelease(what)>>
    ELSE IF status = "dangling" THEN <<EvReleaseDangling(what)>>
    ELSE <<>>

\* The member after the unchecked vkCreate*/vkAllocate* that overwrites it:
\* on failure the output parameter is undefined, so the member keeps the
\* destroyed handle it held or becomes null.
AfterCreate(ok, old) ==
    IF ok THEN {"live"}
    ELSE {"null"} \cup (IF old # "null" THEN {"dangling"} ELSE {})

\* The driver's answers to the four unchecked creations of the resize branch
\* (image, memory, view, staging buffer).  A creation with valid parameters
\* fails only by an injected fault; one with invalid parameters (zero extent,
\* zero size, or an image that was not created) may do either.
VulkanRTBackend_resizeOutcomes(width, height) ==
    { oks \in [1..4 -> BOOLEAN] :
        LET n == Injected(oks, <<width * height, IF oks[1] THEN 1 ELSE 0,
                                 IF oks[1] THEN 1 ELSE 0, width * height * 4>>)
        IN  n = 0 \/ faults + n <= MaxFaults }

\* What is observed of the TraceRaysOptions as far as traceRays read them.
TraceArg(tlas, width, height, u) ==
    [tlas |-> tlas, width |-> width, height |-> height,
     uniforms |-> u.uniforms, uniformsSize |-> u.uniformsSize]

\* uniforms and uniformsSize were not read.
UniformsUnread == [uniforms |-> "unread", uniformsSize |-> "unread"]

\* The size of the camera buffer initialize() creates:
\* 2 * 16 * sizeof(float), viewInverse and projInverse.
CameraBufferSize == 128

\* TraceRaysOptions::uniforms (null or not) and uniformsSize: no uniforms,
\* uniforms that fill the camera buffer, uniforms one byte longer.
UniformsArgs ==
    {[uniforms |-> FALSE, uniformsSize |-> 0],
     [uniforms |-> TRUE, uniformsSize |-> CameraBufferSize],
     [uniforms |-> TRUE, uniformsSize |-> CameraBufferSize + 1]}

\* if (options.uniforms && options.uniformsSize > 0): the camera buffer is
\* mapped and uniformsSize bytes are copied into it.
TraceRaysUploads(u) == u.uniforms /\ u.uniformsSize > 0

\* How traceRays ends after the upload.  uniformsSize is not compared with
\* the size of the camera buffer: a longer copy writes past the mapped
\* buffer, and the call either goes on or the process ends in the copy.
VulkanRTBackend_traceRays_ends(u) ==
    IF TraceRaysUploads(u) /\ u.uniformsSize > CameraBufferSize
    THEN {"returns", "crashes"}
    ELSE {"returns"}

DXRBackend_traceRays_ends(u) ==
    IF TraceRaysUploads(u) /\ u.uniformsSize > CameraBufferSize
    THEN {"returns", "crashes"}
    ELSE {"returns"}

\* What is observed of a traceRays that passed its guards: the commands
\* `prefix` it submitted before the upload and, when it went on, the frame.
\* A call that ends in the copy ends the process: no call follows it.
TraceRaysObserve(end, arg, uaf, prefix, frame) ==
    /\ backend' = IF end = "crashes" THEN "crashed" ELSE backend
    /\ Observe("traceRays", arg,
               IF end = "crashes" THEN "crashed" ELSE "void", uaf,
               IF end = "crashes" THEN prefix ELSE prefix \o frame)

\* The commands of the trace frame, in recording order: the pipeline bind
\* (vkCmdBindPipeline; SetComputeRootSignature and SetPipelineState1), the
\* resource bind (vkCmdBindDescriptorSets; SetDescriptorHeaps and
\* SetComputeRootDescriptorTable), the dispatch of width x height x 1 with
\* the three table regions, the barrier that makes the output image a copy
\* source, the image-to-buffer copy of the same extent, the barrier that
\* returns the image to its working layout, one submit and one wait.
\* (variants TraceFrameNoWait: the submit is not waited for;
\* TraceFrameCopyFirst: the copy is recorded before the dispatch)
TraceFrameNoWait(width, height) ==
    <<EvBind("pipeline"), EvBind("resources"), EvDispatch(width, height),
      EvBarrier("output.toCopySource"), EvCopy(width, height),
      EvBarrier("output.toGeneral"), EvSubmit>>
TraceFrameCopyFirst(width, height) ==
    <<EvBind("pipeline"), EvBind("resources"),
      EvBarrier("output.toCopySource"), EvCopy(width, height),
      EvBarrier("output.toGeneral"), EvDispatch(width, height),
      EvSubmit, EvWait>>
TraceFrame(width, height) ==
    <<EvBind("pipeline"), EvBind("resources"), EvDispatch(width, height),
      EvBarrier("output.toCopySource"), EvCopy(width, height),
      EvBarrier("output.toGeneral"), EvSubmit, EvWait>>

\* The resize test of traceRays.  (variant ResizeAlways: resize every call)
ResizeAlways(width, height) == TRUE
VulkanRTBackend_traceRays_resizes(width, height) ==
    width # outputWidth_ \/ height # outputHeight_

\* What a traceRays that passed its two guards leaves alone: the body writes
\* only the output members; it has no statement that assigns a table, an id
\* counter, a record or a member set by initialize().
\* (variant TraceRaysErasesTLAS: the traced TLAS is erased after the frame)
TraceRaysErasesTLAS(tlas) ==
    /\ tlases_' = Erase(tlases_, tlas._id)
    /\ UNCHANGED <<initialized_, rtSupported_, initObjects, leaked,
                   geometries_, blases_, counterVars, ghostVars>>
VulkanRTBackend_traceRays_keeps(tlas) ==
    UNCHANGED <<initialized_, rtSupported_, initObjects, leaked, tableVars,
                counterVars, ghostVars>>

\* void VulkanRTBackend::traceRays(const TraceRaysOptions&)
VulkanRTBackend_traceRays ==
    /\ CanCall
    /\ UNCHANGED otherVars
    /\ backend = "Vulkan"
    /\ \E tlas \in CallerHandles("tlas"), size \in Sizes,
          u \in UniformsArgs :
       LET width == size[1]
           height == size[2]
           \* tlasPtr = static_cast<VulkanTLAS*>(options.tlas._handle)
           tlasPtr == tlas._handle
       IN
       IF ~initialized_
       THEN /\ NoEffect
            /\ Observe("traceRays", TraceArg("unread", "unread", "unread", UniformsUnread),
                       "void", FALSE, <<>>)
       ELSE IF tlasPtr = NULL
       THEN /\ NoEffect
            /\ Observe("traceRays", TraceArg(tlas, "unread", "unread", UniformsUnread),
                       "void", FALSE, <<>>)
       ELSE
       \* &tlasPtr->accelerationStructure is read for the descriptor write,
       \* after the upload of the uniforms; the rays are dispatched last
       \E end \in VulkanRTBackend_traceRays_ends(u) :
       LET uaf == end # "crashes" /\ Dangling(tlases_, tlasPtr) IN
       /\ lastExtent' = IF end = "crashes" THEN lastExtent ELSE <<width, height>>
       /\ VulkanRTBackend_traceRays_keeps(tlas)
       /\ IF ~VulkanRTBackend_traceRays_resizes(width, height)
          THEN /\ UNCHANGED <<outputImage_, outputImageMemory_, outputImageView_,
                              stagingBuffer_, outputWidth_, outputHeight_, faults>>
               /\ TraceRaysObserve(end, TraceArg(tlas, width, height, u), uaf,
                                   <<>>, TraceFrame(width, height))
          ELSE
          \E oks \in VulkanRTBackend_resizeOutcomes(width, height) :
          /\ faults' = faults + Injected(oks, <<width * height,
                                                IF oks[1] THEN 1 ELSE 0,
                                                IF oks[1] THEN 1 ELSE 0,
                                                width * height * 4>>)
          /\ outputWidth_' = width
          /\ outputHeight_' = height
          /\ outputImage_' \in AfterCreate(oks[1], outputImage_)
          /\ outputImageMemory_' \in AfterCreate(oks[2], outputImageMemory_)
          /\ outputImageView_' \in AfterCreate(oks[3], outputImageView_)
          /\ stagingBuffer_' = StagingBuffer(oks[4], width * height * 4)
          /\ TraceRaysObserve(end, TraceArg(tlas, width, height, u), uaf,
                     ReleaseHandleEvents(outputImageView_, "outputImageView") \o
                     ReleaseHandleEvents(outputImage_, "outputImage") \o
                     ReleaseHandleEvents(outputImageMemory_, "outputImageMemory") \o
                     DestroyBufferEvents(stagingBuffer_, "stagingBuffer") \o
                     <<EvCreate("outputImage", oks[1]),
                       EvCreate("outputImageMemory", oks[2]),
                       EvCreate("outputImageView", oks[3]),
                       EvCreate("stagingBuffer", oks[4]),
                       \* the layout transition UNDEFINED -> GENERAL, in a
                       \* command buffer of its own
                       EvBarrier("output.toGeneral"),
                       EvSubmit, EvWait>>,
                     TraceFrame(width, height))

\* The releases the destructor makes for one record of each table.
VulkanRTBackend_releaseTLAS(tlas) ==
    DestroyASEvents(tlas.accelerationStructure, "tlas.as") \o
    DestroyBufferEvents(tlas.buffer, "tlas.buffer") \o
    DestroyBufferEvents(tlas.instanceBuffer, "tlas.instanceBuffer")

VulkanRTBackend_releaseBLAS(blas) ==
    DestroyASEvents(blas.accelerationStructure, "blas.as") \o
    DestroyBufferEvents(blas.buffer, "blas.buffer")

VulkanRTBackend_releaseGeometry(geom) ==
    DestroyBufferEvents(geom.vertexBuffer, "vertexBuffer") \o
    DestroyBufferEvents(geom.indexBuffer, "indexBuffer")

\* The members the destructor releases after the output resources, in its
\* order; each behind a test for a null handle.
VulkanReleaseOrder ==
    <<"cameraUBO_", "sbtBuffer_", "rtPipeline_", "pipelineLayout_",
      "descriptorSetLayout_", "descriptorPool_", "commandPool_", "device_",
      "instance_">>

\* What the destructor does when initialized_ holds: vkDeviceWaitIdle, then
\* the three tables, the output resources, the pipeline, the device.
VulkanRTBackend_cleanup(tlasOrder, blasOrder, geomOrder) ==
    <<EvIdle>> \o
    Flatten([i \in 1..Len(tlasOrder) |->
                VulkanRTBackend_releaseTLAS(tlases_[tlasOrder[i]])]) \o
    Flatten([i \in 1..Len(blasOrder) |->
                VulkanRTBackend_releaseBLAS(blases_[blasOrder[i]])]) \o
    Flatten([i \in 1..Len(geomOrder) |->
                VulkanRTBackend_releaseGeometry(geometries_[geomOrder[i]])]) \o
    ReleaseHandleEvents(outputImageView_, "outputImageView") \o
    ReleaseHandleEvents(outputImage_, "outputImage") \o
    ReleaseHandleEvents(outputImageMemory_, "outputImageMemory") \o
    DestroyBufferEvents(stagingBuffer_, "stagingBuffer") \o
    MemberReleases(VulkanReleaseOrder)

\* VulkanRTBackend::~VulkanRTBackend(): `if (!initialized_) return;` leaves
\* every object the members hold allocated; the members are raw handles, so
\* nothing releases them afterwards.
VulkanRTBackend_destructor ==
    /\ backend = "Vulkan"
    /\ UNCHANGED otherVars
    /\ \E tlasOrder \in Orders(DOMAIN tlases_),
          blasOrder \in Orders(DOMAIN blases_),
          geomOrder \in Orders(DOMAIN geometries_) :
       lastOp' = [op |-> "destructor", arg |-> [initialized |-> initialized_],
                  result |-> "void", uaf |-> FALSE,
                  trace |-> IF initialized_
                            THEN VulkanRTBackend_cleanup(tlasOrder, blasOrder,
                                                         geomOrder)
                            ELSE <<>>]
    /\ leaked' = IF initialized_ THEN leaked ELSE leaked \cup initObjects
    /\ backend' = "none"
    /\ DefaultMembers
    /\ UNCHANGED <<ghostVars, faults, calls>>

\* ================================================================= DXRBackend
\* bool DXRBackend::createBuffer(size, ...): the values it can return.
\* CreateCommittedResource refuses a buffer of Width 0 (E_INVALIDARG).
DXRBackend_createBuffer(size) ==
    IF size = 0 THEN {FALSE} ELSE CreationOutcomes

\* The members DXRBackend::initialize() sets, in the order its steps set them:
\* createDevice (factory, then device, then the adapter it was made on),
\* createCommandQueue, createCommandAllocatorAndList, createFence (fence,
\* then event), createDescriptorHeaps, createRTPipeline (root signature,
\* then state object, then its properties interface),
\* createShaderBindingTable, createUploadBuffer(cameraBuffer_).
DXRInitMembers ==
    <<"factory_", "device_", "adapter_", "commandQueue_", "commandAllocator_",
      "commandList_", "fence_", "fenceEvent_", "srvUavHeap_",
      "globalRootSignature_", "rtStateObject_", "rtStateObjectProps_",
      "sbtBuffer_", "cameraBuffer_">>

\* The members of DXRBackend that are not ComPtr: a raw HANDLE.
DXRRawMembers == {"fenceEvent_"}

\* The members at which a run of initialize() can fail: every one that is
\* created.  adapter_ is assigned from a local once the device is accepted.
DXRBackend_initialize_failSteps ==
    {k \in 1..Len(DXRInitMembers) : DXRInitMembers[k] # "adapter_"}

\* The members a run that failed at member failStep leaves null although
\* they held an object before the call.  IID_PPV_ARGS(&member) releases
\* what a ComPtr member holds before the creation is attempted, and
\* fenceEvent_ is assigned the null result of CreateEvent.  createDevice
\* may fail before it reaches D3D12CreateDevice (no hardware adapter),
\* createRTPipeline before it reaches CreateRootSignature (DXC, root
\* signature serialization), and createShaderBindingTable after it has
\* stored sbtBuffer_ (Map, GetShaderIdentifier) and so before
\* cameraBuffer_ is touched: then the member keeps its old object.
DXRBackend_initialize_drops(failStep) ==
    IF failStep = 0 THEN {{}}
    ELSE IF DXRInitMembers[failStep]
              \in {"device_", "globalRootSignature_", "cameraBuffer_"}
    THEN {{}, {DXRInitMembers[failStep]}}
    ELSE {{DXRInitMembers[failStep]}}

\* How a run of initialize() that fails at member failStep ends.
\* createRTPipeline assigns the HRESULT of IDxcCompiler3::Compile and never
\* tests it: when Compile fails without a result object,
\* compileResult->GetStatus() is a call through a null pointer.
DXRBackend_initialize_ends(failStep) ==
    IF failStep # 0 /\ DXRInitMembers[failStep] = "globalRootSignature_"
    THEN {"returns", "crashes"}
    ELSE {"returns"}

\* bool DXRBackend::isSupported()
DXRBackend_isSupported == initialized_ /\ rtSupported_

\* The value initialize() leaves in initialized_ and rtSupported_: both are
\* assigned true after the last checked step and nowhere else.
DXRBackend_initialize_flags(failStep) == failStep = 0

\* bool DXRBackend::initialize(): `if (initialized_) return rtSupported_`,
\* then the creations, then initialized_ = rtSupported_ = true.  A ComPtr
\* member releases what it held before it stores a new object;
\* fenceEvent_ = CreateEvent(...) does not.  A run that crashes ends the
\* process: no call follows it.
DXRBackend_initialize ==
    /\ CanCall
    /\ UNCHANGED otherVars
    /\ backend = "DXR"
    /\ IF initialized_
       THEN /\ NoEffect
            /\ Observe("initialize", <<>>, rtSupported_, FALSE, <<>>)
       ELSE \E failStep \in InitializeFailPoints(Len(DXRInitMembers)) \cap
                             ({0} \cup DXRBackend_initialize_failSteps) :
            \E drops \in DXRBackend_initialize_drops(failStep) :
            \E end \in DXRBackend_initialize_ends(failStep) :
            LET set == MembersSet(DXRInitMembers, failStep) IN
            /\ end = "crashes" => drops = {}
            /\ initialized_' = DXRBackend_initialize_flags(failStep)
            /\ rtSupported_' = DXRBackend_initialize_flags(failStep)
            /\ initObjects' = (initObjects \ drops) \cup set
            /\ leaked' = leaked \cup (initObjects \cap (set \cup drops)
                                          \cap DXRRawMembers)
            /\ faults' = faults + (IF failStep = 0 THEN 0 ELSE 1)
            /\ backend' = IF end = "crashes" THEN "crashed" ELSE backend
            /\ Observe("initialize", <<>>,
                       IF end = "crashes" THEN "crashed" ELSE failStep = 0,
                       FALSE, <<>>)
            /\ UNCHANGED <<tableVars, counterVars, outputVars, ghostVars>>

\* The guard of createGeometry: only the initialized_ test.
DXRBackend_createGeometry_rejects(desc) == ~initialized_

\* RTGeometryHandle DXRBackend::createGeometry(const RTGeometryDesc&)
\* A record that is not moved into the table is released by its unique_ptr.
DXRBackend_createGeometry ==
    /\ CanCall
    /\ UNCHANGED otherVars
    /\ backend = "DXR"
    /\ nextGeometryId_ <= MaxGeometryIds
    /\ \E desc \in GeometryDescs :
       IF DXRBackend_createGeometry_rejects(desc)
       THEN /\ NoEffect
            /\ Observe("createGeometry", <<>>, InvalidHandle, FALSE, <<>>)
       ELSE
       LET vbSize == desc.vertexCount * desc.vertexStride
           indexed == desc.indices /\ desc.indexCount > 0
       IN
       \E vbOk \in DXRBackend_createBuffer(vbSize) :
       \E ibOk \in (IF vbOk /\ indexed THEN CreationOutcomes ELSE {TRUE}) :
       LET id == IssueId(nextGeometryId_)
           rec == [vertexBuffer |-> LiveBuffer(vbSize),
                   indexBuffer |-> IF indexed THEN LiveBuffer(desc.indexCount * 4)
                                   ELSE NullBuffer,
                   vertexCount |-> desc.vertexCount,
                   indexCount |-> desc.indexCount,
                   vertexStride |-> desc.vertexStride]
       IN
       /\ faults' = faults + Injected(<<vbOk, ibOk>>, <<vbSize, 1>>)
       /\ UNCHANGED <<lifecycleVars, blases_, tlases_, nextBLASId_,
                      nextTLASId_, outputVars, destroyed>>
       /\ IF ~vbOk
          THEN /\ Observe("createGeometry", desc, InvalidHandle, FALSE,
                          <<EvCreate("vertexBuffer", FALSE)>>)
               /\ UNCHANGED <<geometries_, nextGeometryId_, issued>>
          ELSE IF ~ibOk
          THEN /\ Observe("createGeometry", desc, InvalidHandle, FALSE,
                          <<EvCreate("vertexBuffer", TRUE),
                            EvCreate("indexBuffer", FALSE),
                            EvRelease("vertexBuffer")>>)
               /\ UNCHANGED <<geometries_, nextGeometryId_, issued>>
          ELSE /\ nextGeometryId_' = PostIncrement(nextGeometryId_)
               /\ geometries_' = Insert(geometries_, id, rec)
               /\ issued' = [issued EXCEPT !["geometry"] = @ \cup {id}]
               /\ Observe("createGeometry", desc, MakeHandle(id), FALSE,
                          <<EvCreate("vertexBuffer", TRUE)>> \o
                          (IF indexed THEN <<EvCreate("indexBuffer", TRUE)>>
                           ELSE <<>>))

\* void DXRBackend::destroyGeometry(RTGeometryHandle): erase runs ~DXRGeometry,
\* which releases the members in reverse order of declaration.
DXRBackend_destroyGeometry ==
    /\ CanCall
    /\ UNCHANGED otherVars
    /\ backend = "DXR"
    /\ \E geometry \in CallerHandles("geometry") :
       IF Present(geometries_, geometry._id)
       THEN /\ geometries_' = Erase(geometries_, geometry._id)
            /\ destroyed' = [destroyed EXCEPT !["geometry"] = @ \cup {geometry._id}]
            /\ Observe("destroyGeometry", geometry, "void", FALSE,
                       DestroyBufferEvents(geometries_[geometry._id].indexBuffer,
                                           "indexBuffer") \o
                       DestroyBufferEvents(geometries_[geometry._id].vertexBuffer,
                                           "vertexBuffer"))
            /\ UNCHANGED <<lifecycleVars, blases_, tlases_, counterVars,
                           outputVars, issued, faults>>
       ELSE /\ NoEffect
            /\ Observe("destroyGeometry", geometry, "void", FALSE, <<>>)

\* The guard of createBLAS and of createTLAS: !initialized_ || count == 0.
\* (variant DXRCreateRejectsNoCountTest: without the count test)
DXRCreateRejectsNoCountTest(count) == ~initialized_
DXRBackend_createAS_rejects(count) == ~initialized_ \/ count = 0

\* The command list of a DXR build or refit: resetCommandList,
\* BuildRaytracingAccelerationStructure, the UAV ResourceBarrier on the
\* acceleration structure, executeCommandList, waitForGPU.
DXRBackend_buildCommands(what, mode, n) ==
    <<EvBuild(what, mode, n), EvBarrier(what), EvSubmit, EvWait>>

\* RTBLASHandle DXRBackend::createBLAS(RTGeometryHandle*, size_t count)
\* The scratch buffer is created before the acceleration-structure resource.
DXRBackend_createBLAS ==
    /\ CanCall
    /\ UNCHANGED otherVars
    /\ backend = "DXR"
    /\ nextBLASId_ <= MaxBLASIds
    /\ \E geometries \in Arrays(CallerHandles("geometry")) :
       LET count == Len(geometries) IN
       IF DXRBackend_createAS_rejects(count)
       THEN /\ NoEffect
            /\ Observe("createBLAS", CountRead(count), InvalidHandle, FALSE, <<>>)
       ELSE
       LET used == SelectSeq(geometries, NonNull)
           \* geom = static_cast<DXRGeometry*>(geometries[i]._handle), then
           \* geom->vertexBuffer.gpuAddress, geom->vertexCount, ... are read
           uaf == \E i \in 1..Len(used) : Dangling(geometries_, used[i]._handle)
           arg == ArrayArg(count, [i \in 1..count |-> geometries[i]._id],
                           geometries_)
           id == IssueId(nextBLASId_)
           rec == [accelerationStructure |-> "live",
                   gpuAddress |-> id,
                   geometryIds |-> [i \in 1..Len(used) |-> used[i]._id]]
       IN
       \E failAt \in FailPoints(2) :
       /\ faults' = faults + (IF failAt = 0 THEN 0 ELSE 1)
       /\ UNCHANGED <<lifecycleVars, geometries_, tlases_,
                      nextGeometryId_, nextTLASId_, outputVars, destroyed>>
       /\ IF failAt # 0
          THEN /\ UNCHANGED <<blases_, nextBLASId_, issued>>
               /\ Observe("createBLAS", arg, InvalidHandle, uaf,
                    CASE failAt = 1 -> <<EvCreate("scratch", FALSE)>>
                      [] failAt = 2 -> <<EvCreate("scratch", TRUE),
                                         EvCreate("blas.as", FALSE),
                                         EvRelease("scratch")>>)
          ELSE /\ nextBLASId_' = PostIncrement(nextBLASId_)
               /\ blases_' = Insert(blases_, id, rec)
               /\ issued' = [issued EXCEPT !["blas"] = @ \cup {id}]
               /\ Observe("createBLAS", arg, MakeHandle(id), uaf,
                          <<EvCreate("scratch", TRUE),
                            EvCreate("blas.as", TRUE)>> \o
                            DXRBackend_buildCommands("blas", "build", Len(used)) \o
                            <<EvRelease("scratch")>>)

\* The test of destroyBLAS: `it != blases_.end()`, nothing else.
DXRBackend_destroyBLAS_finds(blas) == Present(blases_, blas._id)

\* void DXRBackend::destroyBLAS(RTBLASHandle)
DXRBackend_destroyBLAS ==
    /\ CanCall
    /\ UNCHANGED otherVars
    /\ backend = "DXR"
    /\ \E blas \in CallerHandles("blas") :
       IF DXRBackend_destroyBLAS_finds(blas)
       THEN /\ blases_' = Erase(blases_, blas._id)
            /\ destroyed' = [destroyed EXCEPT !["blas"] = @ \cup {blas._id}]
            /\ Observe("destroyBLAS", blas, "void", FALSE,
                       DestroyASEvents(blases_[blas._id].accelerationStructure,
                                       "blas.as"))
            /\ UNCHANGED <<lifecycleVars, geometries_, tlases_,
                           counterVars, outputVars, issued, faults>>
       ELSE /\ NoEffect
            /\ Observe("destroyBLAS", blas, "void", FALSE, <<>>)

\* RTTLASHandle DXRBackend::createTLAS(const RTTLASInstance*, size_t)
\* Creation order: instance buffer, scratch buffer, acceleration structure.
DXRBackend_createTLAS ==
    /\ CanCall
    /\ UNCHANGED otherVars
    /\ backend = "DXR"
    /\ nextTLASId_ <= MaxTLASIds
    /\ \E instances \in InstanceArrays :
       LET count == Len(instances)
           firstNull == FirstNull(instances)
           reached == IF firstNull = 0 THEN 1..count ELSE 1..(firstNull - 1)
           uaf == \E i \in reached : Dangling(blases_, instances[i].blas._handle)
       IN
       IF DXRBackend_createAS_rejects(count)
       THEN /\ NoEffect
            /\ Observe("createTLAS", CountRead(count), InvalidHandle, FALSE, <<>>)
       ELSE IF firstNull # 0
       THEN /\ NoEffect
            /\ Observe("createTLAS",
                       ArrayArg(count, [i \in 1..firstNull |-> instances[i].blas._id],
                                blases_),
                       InvalidHandle, uaf, <<>>)
       ELSE
       \E refs \in BlasAddressReads(instances, "gpuAddress") :
       \E failAt \in FailPoints(3) :
       LET arg == ArrayArg(count, [i \in 1..count |-> instances[i].blas._id],
                           blases_)
           id == IssueId(nextTLASId_)
           rec == [accelerationStructure |-> "live",
                   instanceBuffer |-> LiveBuffer(count * 64),
                   instances |-> [i \in 1..count |->
                                     ConvertInstance(instances[i], refs[i])],
                   gpuAddress |-> id,
                   instanceCount |-> count]
       IN
       /\ faults' = faults + (IF failAt = 0 THEN 0 ELSE 1)
       /\ UNCHANGED <<lifecycleVars, geometries_, blases_,
                      nextGeometryId_, nextBLASId_, outputVars, destroyed>>
       /\ IF failAt # 0
          THEN /\ UNCHANGED <<tlases_, nextTLASId_, issued>>
               /\ Observe("createTLAS", arg, InvalidHandle, uaf,
                    CASE failAt = 1 -> <<EvCreate("tlas.instanceBuffer", FALSE)>>
                      [] failAt = 2 -> <<EvCreate("tlas.instanceBuffer", TRUE),
                                         EvCreate("scratch", FALSE),
                                         EvRelease("tlas.instanceBuffer")>>
                      [] failAt = 3 -> <<EvCreate("tlas.instanceBuffer", TRUE),
                                         EvCreate("scratch", TRUE),
                                         EvCreate("tlas.as", FALSE),
                                         EvRelease("scratch"),
                                         EvRelease("tlas.instanceBuffer")>>)
          ELSE /\ nextTLASId_' = PostIncrement(nextTLASId_)
               /\ tlases_' = Insert(tlases_, id, rec)
               /\ issued' = [issued EXCEPT !["tlas"] = @ \cup {id}]
               /\ Observe("createTLAS", arg, MakeHandle(id), uaf,
                          <<EvCreate("tlas.instanceBuffer", TRUE),
                            EvCreate("scratch", TRUE),
                            EvCreate("tlas.as", TRUE)>> \o
                            DXRBackend_buildCommands("tlas", "build", count) \o
                            <<EvRelease("scratch")>>)

\* The two early returns of updateTLAS.
DXRBackend_updateTLAS_rejects(tlas, count) ==
    \/ ~Present(tlases_, tlas._id)
    \/ count # tlases_[tlas._id].instanceCount

\* What updateTLAS writes of the TLAS record it refits (as on Vulkan):
\* Source and Dest of the update are both tlasPtr->gpuAddress.
DXRBackend_updateTLAS_writes(rec, newInstances) ==
    [rec EXCEPT !.instances = newInstances]

\* void DXRBackend::updateTLAS(RTTLASHandle, const RTTLASInstance*, size_t)
DXRBackend_updateTLAS ==
    /\ CanCall
    /\ UNCHANGED otherVars
    /\ backend = "DXR"
    /\ \E tlas \in CallerHandles("tlas"), instances \in InstanceArrays :
       LET count == Len(instances)
           arg == [tlas |-> tlas, count |-> count,
                   stale |-> \E i \in 1..count :
                                Stale(blases_, instances[i].blas._id)]
           uaf == \E i \in 1..count : Dangling(blases_, instances[i].blas._handle)
       IN
       IF DXRBackend_updateTLAS_rejects(tlas, count)
       THEN /\ NoEffect
            /\ Observe("updateTLAS",
                       [tlas |-> tlas,
                        count |-> IF Present(tlases_, tlas._id) THEN count
                                  ELSE "unread",
                        stale |-> FALSE],
                       "void", FALSE, <<>>)
       ELSE
       \E refs \in BlasAddressReads(instances, "gpuAddress") :
       \E scratchOk \in CreationOutcomes :
       /\ faults' = faults + (IF scratchOk THEN 0 ELSE 1)
       \* memcpy(mappedData, instanceDescs.data(), count * sizeof(desc))
       /\ tlases_' = [tlases_ EXCEPT ![tlas._id] =
                        DXRBackend_updateTLAS_writes(@,
                        [i \in 1..count |->
                            IF instances[i].blas._handle = NULL THEN ZeroInstance
                            ELSE ConvertInstance(instances[i], refs[i])])]
       /\ UNCHANGED <<lifecycleVars, geometries_, blases_, counterVars,
                      outputVars, ghostVars>>
       \* the result of createUAVBuffer for the scratch buffer is not checked
       /\ Observe("updateTLAS", arg, "void", uaf,
                  <<EvCreate("scratch", scratchOk)>> \o
                  DXRBackend_buildCommands("tlas", "update", count) \o
                  (IF scratchOk THEN <<EvRelease("scratch")>> ELSE <<>>))

\* void DXRBackend::destroyTLAS(RTTLASHandle): erase runs ~DXRTLAS.
DXRBackend_destroyTLAS ==
    /\ CanCall
    /\ UNCHANGED otherVars
    /\ backend = "DXR"
    /\ \E tlas \in CallerHandles("tlas") :
       IF Present(tlases_, tlas._id)
       THEN /\ tlases_' = Erase(tlases_, tlas._id)
            /\ destroyed' = [destroyed EXCEPT !["tlas"] = @ \cup {tlas._id}]
            /\ Observe("destroyTLAS", tlas, "void", FALSE,
                       DestroyBufferEvents(tlases_[tlas._id].instanceBuffer,
                                           "tlas.instanceBuffer") \o
                       DestroyASEvents(tlases_[tlas._id].accelerationStructure,
                                       "tlas.as"))
            /\ UNCHANGED <<lifecycleVars, geometries_, blases_,
                           counterVars, outputVars, issued, faults>>
       ELSE /\ NoEffect
            /\ Observe("destroyTLAS", tlas, "void", FALSE, <<>>)

\* The driver's answers to the two unchecked CreateCommittedResource calls of
\* the resize branch (output texture, readback buffer).  A zero Width or
\* Height is refused; anything else fails only by an injected fault.
DXRBackend_resizeOutcomes(width, height) ==
    { oks \in [1..2 -> BOOLEAN] :
        /\ (width * height = 0) => (~oks[1] /\ ~oks[2])
        /\ LET n == Injected(oks, <<width * height, width * height * 4>>)
           IN  n = 0 \/ faults + n <= MaxFaults }

\* The resize test of traceRays.
DXRBackend_traceRays_resizes(width, height) ==
    width # outputWidth_ \/ height # outputHeight_

\* What a traceRays that passed its two guards leaves alone (as on Vulkan).
DXRBackend_traceRays_keeps(tlas) ==
    UNCHANGED <<initialized_, rtSupported_, initObjects, leaked, tableVars,
                counterVars, ghostVars>>

\* void DXRBackend::traceRays(const TraceRaysOptions&)
\* outputTexture_ is modelled by outputImage_, readbackBuffer_ by
\* stagingBuffer_; a ComPtr is null or live, never dangling.
DXRBackend_traceRays ==
    /\ CanCall
    /\ UNCHANGED otherVars
    /\ backend = "DXR"
    /\ \E tlas \in CallerHandles("tlas"), size \in Sizes,
          u \in UniformsArgs :
       LET width == size[1]
           height == size[2]
           \* tlasPtr = static_cast<DXRTLAS*>(options.tlas._handle)
           tlasPtr == tlas._handle
       IN
       IF ~initialized_
       THEN /\ NoEffect
            /\ Observe("traceRays", TraceArg("unread", "unread", "unread", UniformsUnread),
                       "void", FALSE, <<>>)
       ELSE IF tlasPtr = NULL
       THEN /\ NoEffect
            /\ Observe("traceRays", TraceArg(tlas, "unread", "unread", UniformsUnread),
                       "void", FALSE, <<>>)
       ELSE
       \* tlasPtr->gpuAddress is read for the TLAS descriptor,
       \* after the upload of the uniforms; the rays are dispatched last
       \E end \in DXRBackend_traceRays_ends(u) :
       LET uaf == end # "crashes" /\ Dangling(tlases_, tlasPtr) IN
       /\ lastExtent' = IF end = "crashes" THEN lastExtent ELSE <<width, height>>
       /\ DXRBackend_traceRays_keeps(tlas)
       /\ UNCHANGED <<outputImageMemory_, outputImageView_>>
       /\ IF ~DXRBackend_traceRays_resizes(width, height)
          THEN /\ UNCHANGED <<outputImage_, stagingBuffer_, outputWidth_,
                              outputHeight_, faults>>
               /\ TraceRaysObserve(end, TraceArg(tlas, width, height, u), uaf,
                                   <<>>, TraceFrame(width, height))
          ELSE
          \E oks \in DXRBackend_resizeOutcomes(width, height) :
          /\ faults' = faults + Injected(oks, <<width * height,
                                                width * height * 4>>)
          /\ outputWidth_' = width
          /\ outputHeight_' = height
          /\ outputImage_' = IF oks[1] THEN "live" ELSE "null"
          /\ stagingBuffer_' = StagingBuffer(oks[2], width * height * 4)
          /\ TraceRaysObserve(end, TraceArg(tlas, width, height, u), uaf,
                     ReleaseHandleEvents(outputImage_, "outputImage") \o
                     DestroyBufferEvents(stagingBuffer_, "stagingBuffer") \o
                     <<EvCreate("outputImage", oks[1]),
                       EvCreate("stagingBuffer", oks[2])>>,
                     TraceFrame(width, height))

\* The releases of one record of each table: its ComPtr members, destroyed
\* in reverse order of declaration.
DXRBackend_releaseTLAS(tlas) ==
    DestroyBufferEvents(tlas.instanceBuffer, "tlas.instanceBuffer") \o
    DestroyASEvents(tlas.accelerationStructure, "tlas.as")

DXRBackend_releaseBLAS(blas) ==
    DestroyASEvents(blas.accelerationStructure, "blas.as")

DXRBackend_releaseGeometry(geom) ==
    DestroyBufferEvents(geom.indexBuffer, "indexBuffer") \o
    DestroyBufferEvents(geom.vertexBuffer, "vertexBuffer")

\* The members the destructor resets after the output resources, in its order.
DXRReleaseOrder ==
    <<"cameraBuffer_", "sbtBuffer_", "rtStateObjectProps_", "rtStateObject_",
      "globalRootSignature_", "srvUavHeap_", "fenceEvent_", "fence_", "commandList_",
      "commandAllocator_", "commandQueue_", "device_", "adapter_",
      "factory_">>

\* The members in reverse order of declaration (dxr_rt.h), the order in which
\* the implicit member destructors run; fenceEvent_ is a raw HANDLE, which no
\* member destructor closes.
DXRDeclaredReversed ==
    <<"cameraBuffer_", "sbtBuffer_", "globalRootSignature_",
      "rtStateObjectProps_", "rtStateObject_", "srvUavHeap_", "fence_", "commandList_", "commandAllocator_",
      "commandQueue_", "device_", "adapter_", "factory_">>

\* What the destructor does when initialized_ holds: waitForGPU, then the
\* three tables, the output resources, the pipeline, the device.
DXRBackend_cleanup(tlasOrder, blasOrder, geomOrder) ==
    <<EvWait>> \o
    Flatten([i \in 1..Len(tlasOrder) |->
                DXRBackend_releaseTLAS(tlases_[tlasOrder[i]])]) \o
    Flatten([i \in 1..Len(blasOrder) |->
                DXRBackend_releaseBLAS(blases_[blasOrder[i]])]) \o
    Flatten([i \in 1..Len(geomOrder) |->
                DXRBackend_releaseGeometry(geometries_[geomOrder[i]])]) \o
    ReleaseHandleEvents(outputImage_, "outputImage") \o
    DestroyBufferEvents(stagingBuffer_, "stagingBuffer") \o
    MemberReleases(DXRReleaseOrder)

\* DXRBackend::~DXRBackend(): after `if (!initialized_) return;` the implicit
\* member destructors still release every ComPtr, without a wait.
DXRBackend_destructor ==
    /\ backend = "DXR"
    /\ UNCHANGED otherVars
    /\ \E tlasOrder \in Orders(DOMAIN tlases_),
          blasOrder \in Orders(DOMAIN blases_),
          geomOrder \in Orders(DOMAIN geometries_) :
       lastOp' = [op |-> "destructor", arg |-> [initialized |-> initialized_],
                  result |-> "void", uaf |-> FALSE,
                  trace |-> IF initialized_
                            THEN DXRBackend_cleanup(tlasOrder, blasOrder,
                                                    geomOrder)
                            ELSE MemberReleases(DXRDeclaredReversed)]
    /\ leaked' = IF initialized_ THEN leaked
                 ELSE leaked \cup (initObjects \cap DXRRawMembers)
    /\ backend' = "none"
    /\ DefaultMembers
    /\ UNCHANGED <<ghostVars, faults, calls>>

Next ==
    \/ VulkanRTBackend_initialize
    \/ VulkanRTBackend_createGeometry
    \/ VulkanRTBackend_destroyGeometry
    \/ VulkanRTBackend_createBLAS
    \/ VulkanRTBackend_destroyBLAS
    \/ VulkanRTBackend_createTLAS
    \/ VulkanRTBackend_updateTLAS
    \/ VulkanRTBackend_destroyTLAS
    \/ VulkanRTBackend_traceRays
    \/ VulkanRTBackend_destructor
    \/ DXRBackend_initialize
    \/ DXRBackend_createGeometry
    \/ DXRBackend_destroyGeometry
    \/ DXRBackend_createBLAS
    \/ DXRBackend_destroyBLAS
    \/ DXRBackend_createTLAS
    \/ DXRBackend_updateTLAS
    \/ DXRBackend_destroyTLAS
    \/ DXRBackend_traceRays
    \/ DXRBackend_destructor

Spec == Init /\ [][Next]_vars

\* ====================================================== instance conversion
\* The loop body of createTLAS and updateTLAS on one RTTLASInstance, for
\* every transform of a bounded family: the two templates, and every matrix
\* with a single non-zero entry of value 1..MaxEntry.
MaxEntry == 2

OneHot16(p, v) == [i \in 1..16 |-> IF i = p THEN v ELSE 0]

TransformInputs ==
    {Distinct16, Identity16}
        \cup {OneHot16(p, v) : p \in 1..16, v \in 1..MaxEntry}

\* inst.blas._handle is null (0) or points at a BLAS record whose device
\* address is BlasDeviceAddress.
BlasDeviceAddress == 64

ConversionInputs ==
    { [transform |-> t, blas |-> [_id |-> 1, _handle |-> ptr],
       instanceId |-> TwoPow24 + 5, mask |-> 255] :
        t \in TransformInputs, ptr \in {NULL, 1} }

TransformInit ==
    /\ backend \in {"Vulkan", "DXR"}
    /\ NewInstance
    /\ NoFactory
    /\ NoSBT
    /\ instanceIn \in ConversionInputs
    /\ instanceOut = <<>>

\* createTLAS: `if (!blasPtr) return RTTLASHandle{}` before the conversion,
\* so no record is stored for a null pointer.
CreateTLAS_instance(inst) ==
    IF inst.blas._handle = NULL
    THEN [op |-> "createTLAS", stored |-> FALSE, converted |-> FALSE,
          record |-> ZeroInstance]
    ELSE [op |-> "createTLAS", stored |-> TRUE, converted |-> TRUE,
          record |-> ConvertInstance(inst, BlasDeviceAddress)]

\* updateTLAS: `if (!blasPtr) continue` leaves the value-initialized element
\* of the vector, which is then copied to the instance buffer.
UpdateTLAS_instance(inst) ==
    IF inst.blas._handle = NULL
    THEN [op |-> "updateTLAS", stored |-> TRUE, converted |-> FALSE,
          record |-> ZeroInstance]
    ELSE [op |-> "updateTLAS", stored |-> TRUE, converted |-> TRUE,
          record |-> ConvertInstance(inst, BlasDeviceAddress)]

ConversionFrame == UNCHANGED <<instanceVars, factoryVars, sbtVars, instanceIn>>

VulkanRTBackend_createTLAS_instance ==
    /\ backend = "Vulkan"
    /\ instanceOut' = CreateTLAS_instance(instanceIn)
    /\ ConversionFrame

VulkanRTBackend_updateTLAS_instance ==
    /\ backend = "Vulkan"
    /\ instanceOut' = UpdateTLAS_instance(instanceIn)
    /\ ConversionFrame

DXRBackend_createTLAS_instance ==
    /\ backend = "DXR"
    /\ instanceOut' = CreateTLAS_instance(instanceIn)
    /\ ConversionFrame

DXRBackend_updateTLAS_instance ==
    /\ backend = "DXR"
    /\ instanceOut' = UpdateTLAS_instance(instanceIn)
    /\ ConversionFrame

TransformNext ==
    \/ VulkanRTBackend_createTLAS_instance
    \/ VulkanRTBackend_updateTLAS_instance
    \/ DXRBackend_createTLAS_instance
    \/ DXRBackend_updateTLAS_instance

TransformSpec == TransformInit /\ [][TransformNext]_vars

\* ====================================================== shader binding table
\* createShaderBindingTable as a function of what the device reports.
MaxAlignLog == 6
MaxAddressUnits == 3

RECURSIVE Pow2(_)
Pow2(k) == IF k = 0 THEN 1 ELSE 2 * Pow2(k - 1)

\* x & ~m on unsigned integers, bit by bit (m below 2^31: the high bits of
\* ~m are ones, so the high bits of x pass).
RECURSIVE AndNot(_, _)
AndNot(x, m) ==
    IF x = 0 THEN 0
    ELSE (IF x % 2 = 1 /\ m % 2 = 0 THEN 1 ELSE 0)
         + 2 * AndNot(x \div 2, m \div 2)

\* #define ALIGN_UP(size, alignment) (((size) + (alignment) - 1) & ~((alignment) - 1))
\* and the same expression written out in the Vulkan backend.
ALIGN_UP(size, alignment) == AndNot(size + alignment - 1, alignment - 1)

\* VkPhysicalDeviceRayTracingPipelinePropertiesKHR as a device may report it:
\* shaderGroupHandleSize, and the two alignments, which are powers of two.
HandleSizes == {16, 32, 48}
Alignments == {Pow2(k) : k \in 3..MaxAlignLog}

\* D3D12_SHADER_IDENTIFIER_SIZE_IN_BYTES and
\* D3D12_RAYTRACING_SHADER_RECORD_BYTE_ALIGNMENT.
IdentifierSize == 32
SHADER_RECORD_ALIGNMENT == 32

\* D3D12_RAYTRACING_SHADER_TABLE_BYTE_ALIGNMENT: the alignment Direct3D 12
\* requires of the StartAddress of RayGenerationShaderRecord, MissShaderTable
\* and HitGroupTable in D3D12_DISPATCH_RAYS_DESC, i.e. the base alignment of
\* a shader-table region on this backend.
ShaderTableAlignment == 64

\* The buffer is bound at offset 0 of an allocation of its own (DXR: is a
\* committed resource), so its address is the base of an allocation, which
\* meets the device's alignment requirements: a multiple of the region base
\* alignment.
SBTDeviceReports ==
    { [backend |-> "Vulkan", handleSize |-> hs, handleAlignment |-> ha,
       baseAlignment |-> ba, address |-> j * ba] :
        hs \in HandleSizes, ha \in Alignments, ba \in Alignments,
        j \in 1..MaxAddressUnits }
    \cup
    { [backend |-> "DXR", handleSize |-> IdentifierSize,
       handleAlignment |-> SHADER_RECORD_ALIGNMENT,
       baseAlignment |-> ShaderTableAlignment,
       address |-> j * ShaderTableAlignment] :
        j \in 1..MaxAddressUnits }

SBTInit ==
    /\ backend \in {"Vulkan", "DXR"}
    /\ NewInstance
    /\ NoFactory
    /\ NoConversion
    /\ sbtDevice \in {d \in SBTDeviceReports : d.backend = backend}
    /\ sbtRegions = <<>>

Region(deviceAddress, stride, size) ==
    [deviceAddress |-> deviceAddress, stride |-> stride, size |-> size]

NotBuilt == [built |-> FALSE]

\* One memcpy into the mapped SBT buffer: bytes bytes of the identifier of
\* a shader group, written at offset.
SBTCopy(offset, group, bytes) ==
    [offset |-> offset, group |-> group, bytes |-> bytes]

\* shaderGroups[0..2] of createRTPipeline: handle k of
\* vkGetRayTracingShaderGroupHandlesKHR_ is the identifier of group k.
VulkanRTBackend_shaderGroups == <<"raygen", "miss", "hit">>

\* The three memcpy calls of VulkanRTBackend::createShaderBindingTable.
\* (variant SbtCopiesPacked: the handles are copied as they are packed in
\* the array the driver filled, handleSize apart)
SbtCopiesPacked(handleSize, raygenSize, missSize) ==
    [k \in 1..3 |-> SBTCopy((k - 1) * handleSize,
                            VulkanRTBackend_shaderGroups[k], handleSize)]
VulkanRTBackend_sbtCopies(handleSize, raygenSize, missSize) ==
    <<SBTCopy(0, VulkanRTBackend_shaderGroups[0 + 1], handleSize),
      SBTCopy(raygenSize, VulkanRTBackend_shaderGroups[1 + 1], handleSize),
      SBTCopy(raygenSize + missSize, VulkanRTBackend_shaderGroups[2 + 1],
              handleSize)>>

\* The three memcpy calls of DXRBackend::createShaderBindingTable: raygenId,
\* missId, hitGroupId.
DXRBackend_sbtCopies(identifierSize, shaderRecordSize_) ==
    <<SBTCopy(0 * shaderRecordSize_, "raygen", identifierSize),
      SBTCopy(1 * shaderRecordSize_, "miss", identifierSize),
      SBTCopy(2 * shaderRecordSize_, "hit", identifierSize)>>

\* raygenRegion_, missRegion_, hitRegion_ of VulkanRTBackend.
VulkanRTBackend_sbtRegions(dev) ==
    LET handleSizeAligned == ALIGN_UP(dev.handleSize, dev.handleAlignment)
        raygenSize == ALIGN_UP(handleSizeAligned, dev.baseAlignment)
        missSize == ALIGN_UP(handleSizeAligned, dev.baseAlignment)
        hitSize == ALIGN_UP(handleSizeAligned, dev.baseAlignment)
        sbtAddress == dev.address
    IN  [built |-> TRUE,
         sbtSize |-> raygenSize + missSize + hitSize,
         copies |-> VulkanRTBackend_sbtCopies(dev.handleSize, raygenSize,
                                              missSize),
         raygen |-> Region(sbtAddress, raygenSize, raygenSize),
         miss |-> Region(sbtAddress + raygenSize, handleSizeAligned, missSize),
         hit |-> Region(sbtAddress + raygenSize + missSize,
                        handleSizeAligned, hitSize)]

\* raygenShaderRecord_, missShaderRecord_, hitGroupShaderRecord_ of
\* DXRBackend with shaderRecordSize_, as traceRays puts them in
\* D3D12_DISPATCH_RAYS_DESC (StartAddress, StrideInBytes, SizeInBytes).
DXRBackend_sbtRegions(dev) ==
    LET identifierSize == IdentifierSize
        shaderRecordSize_ == ALIGN_UP(identifierSize, SHADER_RECORD_ALIGNMENT)
        gpuAddress == dev.address
    IN  [built |-> TRUE,
         sbtSize |-> shaderRecordSize_ * 3,
         copies |-> DXRBackend_sbtCopies(identifierSize, shaderRecordSize_),
         raygen |-> Region(gpuAddress + 0 * shaderRecordSize_,
                           shaderRecordSize_, shaderRecordSize_),
         miss |-> Region(gpuAddress + 1 * shaderRecordSize_,
                         shaderRecordSize_, shaderRecordSize_),
         hit |-> Region(gpuAddress + 2 * shaderRecordSize_,
                        shaderRecordSize_, shaderRecordSize_)]

SBTFrame == UNCHANGED <<instanceVars, factoryVars, conversionVars, sbtDevice>>

\* bool VulkanRTBackend::createShaderBindingTable(): false when the handles
\* cannot be read or the buffer cannot be created.
VulkanRTBackend_createShaderBindingTable ==
    /\ backend = "Vulkan"
    /\ \E ok \in {TRUE, FALSE} :
           sbtRegions' = IF ok THEN VulkanRTBackend_sbtRegions(sbtDevice)
                         ELSE NotBuilt
    /\ SBTFrame

\* bool DXRBackend::createShaderBindingTable(): false when the buffer cannot
\* be created or mapped, or an identifier is missing.
DXRBackend_createShaderBindingTable ==
    /\ backend = "DXR"
    /\ \E ok \in {TRUE, FALSE} :
           sbtRegions' = IF ok THEN DXRBackend_sbtRegions(sbtDevice)
                         ELSE NotBuilt
    /\ SBTFrame

SBTNext ==
    \/ VulkanRTBackend_createShaderBindingTable
    \/ DXRBackend_createShaderBindingTable

SBTSpec == SBTInit /\ [][SBTNext]_vars

\* ========================================================== createRTBackend
\* The factory, one step per #ifdef block, and the calls on the stub backend
\* it falls back to.

\* The vendor classes in the order of their blocks in createRTBackend().
ProbeOrder == <<"DXR", "Vulkan", "Metal">>

\* The sets of MYSTRAL_HAS_* macros a build defines: none, or any vendor
\* classes of one platform (d3d12 and Metal headers never meet in one build).
CompiledSets ==
    {S \in SUBSET {"DXR", "Vulkan", "Metal"} : ~({"DXR", "Metal"} \subseteq S)}

FactoryInit ==
    /\ backend = "none"
    /\ NewInstance
    /\ NoSBT
    /\ NoConversion
    /\ compiled \in CompiledSets
    /\ probes = <<>>
    /\ product = "none"

Probed == {probes[i].class : i \in 1..Len(probes)}

\* Control has reached the block of ProbeOrder[k]: no backend was returned,
\* and every compiled-in block before it has run.
AtBlock(k) ==
    /\ product = "none"
    /\ lastOp.op # "createRTBackend"
    /\ ProbeOrder[k] \in compiled
    /\ ProbeOrder[k] \notin Probed
    /\ \A j \in 1..(k - 1) : ProbeOrder[j] \in compiled => ProbeOrder[j] \in Probed

\* A test that lets every probed backend through.
ProbeAlwaysSucceeds(result) == TRUE

\* `if (dxr->initialize())` and its two siblings: the test of the result.
ProbeSucceeded(result) == result

\* The members MetalRTBackend::initialize() sets.
MetalInitMembers == <<"device_", "commandQueue_", "shaderLibrary_", "rtPipeline_">>

\* initialized_ and rtSupported_ after MetalRTBackend::initialize():
\* "@return true if hardware RT is available and initialized".
MetalRTBackend_initialize_flags(failStep) == failStep = 0

MetalRTBackend_isSupported == initialized_ /\ rtSupported_

\* What the destructor of a backend whose initialize() failed leaves
\* allocated, of the members `set` that initialize() had set.
LeftByFailedProbe(class, set) ==
    CASE class = "Vulkan" -> set
      [] class = "DXR" -> set \cap DXRRawMembers
      [] OTHER -> {}

\* One block: make_unique<Class>(), initialize(), and either `return` of
\* the initialized backend or the end of the block, which destroys it.
\* `steps` are the members at which initialize() can fail, `unheld` the
\* sets of objects a run that fails there may leave held by nothing, `ends`
\* how such a run ends.  A run that crashes ends the process inside the
\* factory: nothing is returned and no block follows.
createRTBackend_block(class, members, flags, steps, unheld, ends) ==
    \E failStep \in {0} \cup steps :
    \E lost \in unheld[failStep], end \in ends[failStep] :
        LET result == failStep = 0
            set == MembersSet(members, failStep)
        IN  /\ probes' = Append(probes, [class |-> class, result |-> result])
            /\ IF end = "crashes"
               THEN /\ product' = "crashed"
                    /\ backend' = "crashed"
                    /\ UNCHANGED <<initialized_, rtSupported_, initObjects,
                                   leaked>>
                    /\ lastOp' = [op |-> "initialize", arg |-> <<>>,
                                  result |-> "crashed", uaf |-> FALSE,
                                  trace |-> <<>>]
               ELSE IF ProbeSucceeded(result)
               THEN /\ product' = class
                    /\ backend' = class
                    /\ initialized_' = flags[failStep]
                    /\ rtSupported_' = flags[failStep]
                    /\ initObjects' = set
                    /\ leaked' = leaked
                    /\ lastOp' = [op |-> "createRTBackend", arg |-> <<>>,
                                  result |-> class, uaf |-> FALSE,
                                  trace |-> <<>>]
               ELSE /\ product' = "none"
                    /\ backend' = "none"
                    /\ UNCHANGED <<initialized_, rtSupported_, initObjects>>
                    /\ leaked' = leaked \cup LeftByFailedProbe(class, set)
                                         \cup lost
                    /\ lastOp' = [op |-> "initialize", arg |-> <<>>,
                                  result |-> result, uaf |-> FALSE,
                                  trace |-> <<>>]
            /\ UNCHANGED <<tableVars, counterVars, outputVars, ghostVars,
                           faults, calls, compiled, sbtVars, conversionVars>>

createRTBackend_DXR ==
    /\ AtBlock(1)
    /\ createRTBackend_block("DXR", DXRInitMembers,
           [f \in 0..Len(DXRInitMembers) |-> DXRBackend_initialize_flags(f)],
           DXRBackend_initialize_failSteps,
           [f \in 0..Len(DXRInitMembers) |-> {{}}],
           [f \in 0..Len(DXRInitMembers) |-> DXRBackend_initialize_ends(f)])

createRTBackend_Vulkan ==
    /\ AtBlock(2)
    /\ createRTBackend_block("Vulkan", VulkanInitMembers,
           [f \in 0..Len(VulkanInitMembers) |->
               VulkanRTBackend_initialize_flags(f)],
           1..Len(VulkanInitMembers),
           [f \in 0..Len(VulkanInitMembers) |->
               VulkanRTBackend_createRTPipeline_unheld(f)],
           [f \in 0..Len(VulkanInitMembers) |-> {"returns"}])

createRTBackend_Metal ==
    /\ AtBlock(3)
    /\ createRTBackend_block("Metal", MetalInitMembers,
           [f \in 0..Len(MetalInitMembers) |->
               MetalRTBackend_initialize_flags(f)],
           1..Len(MetalInitMembers),
           [f \in 0..Len(MetalInitMembers) |-> {{}}],
           [f \in 0..Len(MetalInitMembers) |-> {"returns"}])

\* No backend at all: a null interface.
NoProduct == "none"

\* The class the last statement of createRTBackend() constructs.
FallbackProduct == "Stub"

\* `return std::make_unique<StubRTBackend>();`: reached when no block
\* returned.
createRTBackend_fallback ==
    /\ product = "none"
    /\ lastOp.op # "createRTBackend"
    /\ compiled \subseteq Probed
    /\ product' = FallbackProduct
    /\ backend' = FallbackProduct
    /\ lastOp' = [op |-> "createRTBackend", arg |-> <<>>,
                  result |-> FallbackProduct, uaf |-> FALSE, trace |-> <<>>]
    /\ UNCHANGED <<initialized_, rtSupported_, initObjects, leaked,
                   tableVars, counterVars, outputVars, ghostVars, faults,
                   calls, compiled, probes, sbtVars, conversionVars>>

\* ------------------------------------------------------------ StubRTBackend
StubRTBackend_isSupported == FALSE
StubRTBackend_getBackendType == "None"

\* A handle of a kind with no backing record.
ValidLookingHandle == MakeHandle(1)

\* RTGeometryHandle{} / RTBLASHandle{} / RTTLASHandle{}
StubRTBackend_handle == InvalidHandle

\* The handles and arrays a caller may pass to the stub.
StubHandles == {InvalidHandle, MakeHandle(1)}
StubInstances ==
    {<<>>} \cup {<<Instance(TemplateA, h)>> : h \in StubHandles}

\* A call on the stub: it has no members to touch.
StubCall(op, arg, result) ==
    /\ backend = "Stub"
    /\ CanCall
    /\ NoEffect
    /\ UNCHANGED otherVars
    /\ Observe(op, arg, result, FALSE, <<>>)

StubRTBackend_isSupported_call ==
    StubCall("isSupported", <<>>, StubRTBackend_isSupported)

StubRTBackend_getBackendType_call ==
    StubCall("getBackendType", <<>>, StubRTBackend_getBackendType)

StubRTBackend_createGeometry ==
    \E desc \in GeometryDescs :
        StubCall("createGeometry", desc, StubRTBackend_handle)

StubRTBackend_destroyGeometry ==
    \E geometry \in StubHandles : StubCall("destroyGeometry", geometry, "void")

StubRTBackend_createBLAS ==
    \E geometries \in {<<>>} \cup {<<h>> : h \in StubHandles} :
        StubCall("createBLAS", geometries, StubRTBackend_handle)

StubRTBackend_destroyBLAS ==
    \E blas \in StubHandles : StubCall("destroyBLAS", blas, "void")

StubRTBackend_createTLAS ==
    \E instances \in StubInstances :
        StubCall("createTLAS", instances, StubRTBackend_handle)

StubRTBackend_updateTLAS ==
    \E tlas \in StubHandles, instances \in StubInstances :
        StubCall("updateTLAS", <<tlas, instances>>, "void")

StubRTBackend_destroyTLAS ==
    \E tlas \in StubHandles : StubCall("destroyTLAS", tlas, "void")

StubRTBackend_traceRays ==
    \E tlas \in StubHandles, size \in Sizes :
        StubCall("traceRays", <<tlas, size>>, "void")

FactoryNext ==
    \/ createRTBackend_DXR
    \/ createRTBackend_Vulkan
    \/ createRTBackend_Metal
    \/ createRTBackend_fallback
    \/ StubRTBackend_isSupported_call
    \/ StubRTBackend_getBackendType_call
    \/ StubRTBackend_createGeometry
    \/ StubRTBackend_destroyGeometry
    \/ StubRTBackend_createBLAS
    \/ StubRTBackend_destroyBLAS
    \/ StubRTBackend_createTLAS
    \/ StubRTBackend_updateTLAS
    \/ StubRTBackend_destroyTLAS
    \/ StubRTBackend_traceRays

FactorySpec == FactoryInit /\ [][FactoryNext]_vars

\* ===================================================================== claims
\* The number of events of one kind in a trace, and of one kind on one object.
CountEvents(tr, kind) == Len(SelectSeq(tr, LAMBDA ev : ev[1] = kind))

CountOf(tr, kind, what) ==
    Len(SelectSeq(tr, LAMBDA ev : ev[1] = kind /\ ev[2] = what))

CreateOps == {"createGeometry", "createBLAS", "createTLAS"}
DestroyOps == {"destroyGeometry", "destroyBLAS", "destroyTLAS"}

\* The table a create* or destroy* call works on.
TableOf(op) ==
    CASE op \in {"createGeometry", "destroyGeometry"} -> "geometry"
      [] op \in {"createBLAS", "destroyBLAS"} -> "blas"
      [] op \in {"createTLAS", "destroyTLAS"} -> "tlas"

\* The three tables by name, and the ids each holds.
Tables == [geometry |-> geometries_, blas |-> blases_, tlas |-> tlases_]
TableIds == [geometry |-> DOMAIN geometries_, blas |-> DOMAIN blases_,
             tlas |-> DOMAIN tlases_]

\* The step is a create* call that returned a handle other than {0, null}.
CreateSucceeded ==
    lastOp'.op \in CreateOps /\ lastOp'.result # InvalidHandle

\* C1: every create* call that succeeds returns a handle whose id is nonzero
\* and strictly greater than every id the same table returned before; the
\* geometry, BLAS and TLAS tables are counted separately.
C1_IdsNonzeroAndStrictlyIncreasing ==
    [][CreateSucceeded =>
         /\ lastOp'.result._id # 0
         /\ \A j \in issued[TableOf(lastOp'.op)] : lastOp'.result._id > j]_vars

\* A table has returned its second id, after id 1.
C1_Witness ==
    /\ lastOp.op \in CreateOps
    /\ lastOp.result._id = 2
    /\ issued[TableOf(lastOp.op)] = {1, 2}

\* C2: once destroy* has removed an id from its table, no later create* of
\* that table returns that id again.
C2_DestroyedIdsNeverReturned ==
    [][CreateSucceeded =>
         lastOp'.result._id \notin destroyed[TableOf(lastOp'.op)]]_vars

\* A create* succeeded on a table one of whose ids had been destroyed before.
C2_Witness ==
    /\ lastOp.op \in CreateOps
    /\ lastOp.result # InvalidHandle
    /\ destroyed[TableOf(lastOp.op)] # {}
    /\ Tables[TableOf(lastOp.op)] # <<>>
    /\ DOMAIN Tables[TableOf(lastOp.op)] = {lastOp.result._id}

\* Every member of the backend the caller or the GPU can see, without the
\* environment's bookkeeping.
backendState == <<initialized_, tableVars, counterVars, outputImage_,
                  outputImageMemory_, outputImageView_, stagingBuffer_,
                  outputWidth_, outputHeight_>>

\* The step is a traceRays call on an initialized backend whose TLAS handle
\* carries an id that is not in the TLAS table.
TraceWithAbsentTlas ==
    /\ lastOp'.op = "traceRays"
    /\ initialized_
    /\ ~Present(tlases_, lastOp'.arg.tlas._id)

\* C3: traceRays called with a TLAS handle whose id is no longer in the TLAS
\* table is a no-op: it does not read the destroyed record through the
\* pointer cached in the handle, submits no GPU work and changes no member.
C3_StaleTraceIsNoOp ==
    [][TraceWithAbsentTlas =>
         /\ ~lastOp'.uaf
         /\ lastOp'.trace = <<>>
         /\ backendState' = backendState]_vars

\* A traceRays call with the handle of a destroyed TLAS and a new extent
\* ended in the copy of the uniforms: the output objects were re-created,
\* the record was not read yet and no rays were recorded.
StaleTraceEndedInUpload ==
    /\ lastOp.op = "traceRays"
    /\ lastOp.result = "crashed"
    /\ lastOp.arg.tlas._id \in destroyed.tlas
    /\ ~lastOp.uaf
    /\ lastExtent = <<>>
    /\ outputWidth_ = 1
    /\ CountOf(lastOp.trace, "create", "stagingBuffer") = 1
    /\ CountEvents(lastOp.trace, "dispatch") = 0

\* The step is a createBLAS, createTLAS or updateTLAS call that reached a
\* handle whose id was issued and is no longer in its table.
BuildWithStaleHandle ==
    /\ lastOp'.op \in {"createBLAS", "createTLAS", "updateTLAS"}
    /\ lastOp'.arg.stale

\* C4: createBLAS given a geometry handle whose id is absent from the
\* geometry table, and createTLAS/updateTLAS given an instance whose BLAS
\* handle id is absent from the BLAS table, never read the destroyed record;
\* create* returns the invalid handle and updateTLAS is a no-op.
C4_StaleHandlesResolvedById ==
    [][BuildWithStaleHandle =>
         /\ ~lastOp'.uaf
         /\ lastOp'.op \in CreateOps => lastOp'.result = InvalidHandle
         /\ lastOp'.op = "updateTLAS" =>
              (lastOp'.trace = <<>> /\ backendState' = backendState)]_vars

\* The step is a createGeometry call with vertexCount = 0 on an initialized
\* backend.
CreateGeometryWithNoVertices ==
    /\ lastOp'.op = "createGeometry"
    /\ initialized_
    /\ lastOp'.arg.vertexCount = 0

\* C5: createGeometry with vertexCount = 0 on an initialized backend always
\* returns the invalid handle {0, null} and leaves the geometry table and the
\* geometry id counter exactly as they were.
C5_ZeroVerticesRejected ==
    [][CreateGeometryWithNoVertices =>
         /\ lastOp'.result = InvalidHandle
         /\ geometries_' = geometries_
         /\ nextGeometryId_' = nextGeometryId_]_vars

\* A trace that contains a GPU object creation the driver failed.
HasFailedCreate(tr) == \E i \in DOMAIN tr : tr[i][1] = "create" /\ ~tr[i][3]

\* The step is a createBLAS or createTLAS call with count = 0.  On a backend
\* that is not initialized the call returns before it looks at count, so
\* there every count, 0 included, is covered.
CreateASWithZeroCount ==
    /\ lastOp'.op \in {"createBLAS", "createTLAS"}
    /\ (~initialized_ \/ lastOp'.arg.count = 0)

\* C6: createBLAS and createTLAS called with count = 0 return the invalid
\* handle, insert no entry in the BLAS/TLAS table, allocate no GPU buffer and
\* submit no build command.
C6_ZeroCountRejected ==
    [][CreateASWithZeroCount =>
         /\ lastOp'.result = InvalidHandle
         /\ tableVars' = tableVars
         /\ counterVars' = counterVars
         /\ lastOp'.trace = <<>>]_vars

\* createTLAS was called with count = 0 on an initialized backend and
\* returned the invalid handle.
C6_Witness ==
    /\ lastOp.op = "createTLAS"
    /\ initialized_
    /\ lastOp.arg.count = 0
    /\ lastOp.result = InvalidHandle

\* The step is an updateTLAS call whose handle id is not in the TLAS table,
\* or whose count differs from the instanceCount of the TLAS it names.
UpdateMustBeRejected ==
    /\ lastOp'.op = "updateTLAS"
    /\ \/ ~Present(tlases_, lastOp'.arg.tlas._id)
       \/ lastOp'.arg.count # tlases_[lastOp'.arg.tlas._id].instanceCount

\* C7: updateTLAS with a TLAS handle whose id is not in the TLAS table, or
\* with a count different from the TLAS's instance count, is rejected: the
\* instance buffer contents, the acceleration structure and instanceCount of
\* every TLAS are unchanged and no GPU command is submitted.
C7_UpdateRejected ==
    [][UpdateMustBeRejected =>
         /\ tlases_' = tlases_
         /\ lastOp'.trace = <<>>]_vars

\* updateTLAS was called on a TLAS that is in the table with a count other
\* than its instanceCount, and nothing was submitted.
C7_Witness ==
    /\ lastOp.op = "updateTLAS"
    /\ Present(tlases_, lastOp.arg.tlas._id)
    /\ lastOp.arg.count # tlases_[lastOp.arg.tlas._id].instanceCount
    /\ lastOp.trace = <<>>

\* The step is a create* call that must fail: the backend is not initialized,
\* count is 0 (createBLAS, createTLAS), or the driver failed one of the GPU
\* object creations of the call.
CreateMustFail ==
    /\ lastOp'.op \in CreateOps
    /\ \/ ~initialized_
       \/ (lastOp'.op # "createGeometry" /\ lastOp'.arg.count = 0)
       \/ HasFailedCreate(lastOp'.trace)

\* C8: whenever a create* call fails it returns the invalid handle and every
\* table holds exactly the ids, and the records, it held before the call.
C8_FailedCreateLeavesNoRecord ==
    [][/\ CreateMustFail => lastOp'.result = InvalidHandle
       /\ (lastOp'.op \in CreateOps /\ lastOp'.result = InvalidHandle) =>
            (TableIds' = TableIds /\ tableVars' = tableVars)]_vars

\* createTLAS failed at its last creation, after three objects had been
\* created, and returned the invalid handle.
C8_Witness ==
    /\ lastOp.op = "createTLAS"
    /\ lastOp.result = InvalidHandle
    /\ HasFailedCreate(lastOp.trace)
    /\ CountEvents(lastOp.trace, "create") = 4

\* C9: destroy* with a handle whose id is not in its table changes no table
\* and releases nothing (so a second destroy of the same handle does what the
\* first left to do: nothing); with an id that is in the table it removes
\* exactly that entry and leaves every other entry of every table untouched.
C9_DestroyRemovesExactlyOneOrNothing ==
    [][lastOp'.op \in DestroyOps =>
         LET t == TableOf(lastOp'.op)
             id == lastOp'.arg._id
         IN IF id \notin TableIds[t]
            THEN /\ tableVars' = tableVars
                 /\ lastOp'.trace = <<>>
            ELSE /\ TableIds'[t] = TableIds[t] \ {id}
                 /\ \A u \in DOMAIN Tables :
                      \A j \in TableIds[u] :
                          (u # t \/ j # id) =>
                             (j \in TableIds'[u] /\ Tables'[u][j] = Tables[u][j])
                 /\ \A u \in DOMAIN Tables : TableIds'[u] \subseteq TableIds[u]]_vars

\* destroy* was called a second time with a handle it had already destroyed,
\* and released nothing.
C9_Witness ==
    /\ lastOp.op \in DestroyOps
    /\ lastOp.arg._id \in destroyed[TableOf(lastOp.op)]
    /\ lastOp.trace = <<>>

\* The GPU objects traceRays keeps for its output, by backend.
OutputObjects ==
    IF backend = "Vulkan"
    THEN {"outputImage", "outputImageMemory", "outputImageView", "stagingBuffer"}
    ELSE {"outputImage", "stagingBuffer"}

\* Whether the object named `what` exists before the step.
OutputLive(what) ==
    CASE what = "outputImage" -> outputImage_ = "live"
      [] what = "outputImageMemory" -> outputImageMemory_ = "live"
      [] what = "outputImageView" -> outputImageView_ = "live"
      [] what = "stagingBuffer" -> stagingBuffer_.buffer = "live"

\* The step is a traceRays call with a TLAS that is in the table, after an
\* earlier traceRays call has run.
TraceAfterTrace ==
    /\ lastOp'.op = "traceRays"
    /\ initialized_
    /\ Present(tlases_, lastOp'.arg.tlas._id)
    /\ lastExtent # <<>>

\* C10: a traceRays call whose (width, height) equals that of the previous
\* call creates and releases no output image or readback buffer; one whose
\* (width, height) differs releases each old output object that exists once
\* and creates each new one exactly once.
C10_OutputReallocatedOnlyOnResize ==
    [][TraceAfterTrace =>
         \A what \in OutputObjects :
            LET created == CountOf(lastOp'.trace, "create", what)
                released == CountOf(lastOp'.trace, "release", what)
                releasedDangling ==
                    CountOf(lastOp'.trace, "release-dangling", what)
            IN
            IF <<lastOp'.arg.width, lastOp'.arg.height>> = lastExtent
            THEN created = 0 /\ released = 0 /\ releasedDangling = 0
            ELSE /\ created = 1
                 /\ released = (IF OutputLive(what) THEN 1 ELSE 0)
                 /\ released + releasedDangling <= 1]_vars

\* A traceRays call released the output image and the readback buffer of the
\* previous extent and created new ones.
C10_Witness ==
    /\ lastOp.op = "traceRays"
    /\ CountOf(lastOp.trace, "release", "outputImage") = 1
    /\ CountOf(lastOp.trace, "release", "stagingBuffer") = 1
    /\ CountOf(lastOp.trace, "create", "outputImage") = 1
    /\ CountOf(lastOp.trace, "create", "stagingBuffer") = 1
    /\ outputImage_ = "live"
    /\ stagingBuffer_.buffer = "live"

\* ------------------------------------------------------------------ C15
\* isSupported() of the instance, whichever class it is; no instance, no
\* support.
IsSupported ==
    CASE backend = "Vulkan" -> VulkanRTBackend_isSupported
      [] backend = "DXR" -> DXRBackend_isSupported
      [] OTHER -> FALSE

\* C15: the state machine is one-way.  isSupported() is false after
\* construction; it becomes true only in a step in which initialize()
\* returns true; initialize() returns true only if isSupported() is true
\* afterwards; and no call on the instance, a repeated initialize()
\* included, makes it false again while the instance exists.  A call that
\* ends the process returns nothing and leaves no instance.
C15_InitializedIsOneWay ==
    [][/\ (calls = 0 /\ lastOp.op = "construct") => ~IsSupported
       /\ backend' \notin {"none", "crashed"} =>
            /\ IsSupported => IsSupported'
            /\ (~IsSupported /\ IsSupported') =>
                  (lastOp'.op = "initialize" /\ lastOp'.result = TRUE)
            /\ lastOp'.op = "initialize" => (lastOp'.result = IsSupported')]_vars

\* An initialized backend on which a createGeometry succeeded and
\* initialize() was then called again.
C15_Witness ==
    /\ IsSupported
    /\ lastOp.op = "initialize"
    /\ lastOp.result = TRUE
    /\ nextGeometryId_ > 1

\* ------------------------------------------------------------------ C16
\* C16: after an initialize() that returned false, isSupported() is false
\* and the instance holds no object that initialize() created; and while
\* isSupported() is false every create* returns the invalid handle.
C16_FailedInitializeHoldsNothing ==
    /\ (lastOp.op = "initialize" /\ lastOp.result = FALSE) =>
          (~IsSupported /\ initObjects = {})
    /\ (lastOp.op \in {"createGeometry", "createBLAS", "createTLAS"}
          /\ ~IsSupported) => lastOp.result = InvalidHandle

\* ------------------------------------------------------------------ C17
\* The command sequences in flight after the events tr, starting from n:
\* a submit adds one, a wait on the queue or the device ends them all.
RECURSIVE InFlight(_, _)
InFlight(tr, n) ==
    IF tr = <<>> THEN n
    ELSE InFlight(Tail(tr),
                  CASE Head(tr) = EvSubmit -> n + 1
                    [] Head(tr) \in {EvWait, EvIdle} -> 0
                    [] OTHER -> n)

\* The most command sequences in flight at any point of tr.
RECURSIVE MaxInFlight(_, _)
MaxInFlight(tr, n) ==
    IF tr = <<>> THEN n
    ELSE LET m == InFlight(<<Head(tr)>>, n)
             rest == MaxInFlight(Tail(tr), m)
         IN IF rest > n THEN rest ELSE n

\* C17: every public call is synchronous.  When a call returns, every
\* command sequence it submitted has been waited for, and it never has two
\* sequences in flight at once.
C17_CallsAreSynchronous ==
    /\ InFlight(lastOp.trace, 0) = 0
    /\ MaxInFlight(lastOp.trace, 0) <= 1

\* A traceRays that resized the output: two command sequences in one call.
C17_Witness ==
    /\ lastOp.op = "traceRays"
    /\ CountEvents(lastOp.trace, "submit") = 2
    /\ CountEvents(lastOp.trace, "wait") = 2

\* ------------------------------------------------------------------ C18
\* The place of a destructor event in the dependency order: the wait, the
\* TLASes, the BLASes, the geometries, the pipeline / SBT / output
\* resources, the device (with the instance or factory it came from).
ReleaseRank(ev) ==
    CASE ev \in {EvIdle, EvWait} -> 0
      [] ev[2] \in {"tlas.as", "tlas.buffer", "tlas.instanceBuffer"} -> 1
      [] ev[2] \in {"blas.as", "blas.buffer"} -> 2
      [] ev[2] \in {"vertexBuffer", "indexBuffer"} -> 3
      [] ev[2] \in {"device_", "instance_", "factory_"} -> 5
      [] OTHER -> 4

RECURSIVE SumOver(_, _)
SumOver(f, S) ==
    IF S = {} THEN 0
    ELSE LET x == CHOOSE y \in S : TRUE IN f[x] + SumOver(f, S \ {x})

\* The live buffers among the fields of a table record.
LiveBuffersOf(rec) ==
    Cardinality({ k \in DOMAIN rec \cap
                       {"buffer", "instanceBuffer", "vertexBuffer", "indexBuffer"} :
                    rec[k].buffer = "live" })

\* The live acceleration structures among the fields of a table record.
LiveASOf(rec) ==
    IF "accelerationStructure" \in DOMAIN rec
       /\ rec.accelerationStructure = "live" THEN 1 ELSE 0

\* The GPU objects the instance holds: in its tables, its output members
\* and the members initialize() set.
ObjectsHeld ==
    SumOver([i \in DOMAIN tlases_ |->
                LiveBuffersOf(tlases_[i]) + LiveASOf(tlases_[i])],
            DOMAIN tlases_)
    + SumOver([i \in DOMAIN blases_ |->
                  LiveBuffersOf(blases_[i]) + LiveASOf(blases_[i])],
              DOMAIN blases_)
    + SumOver([i \in DOMAIN geometries_ |-> LiveBuffersOf(geometries_[i])],
              DOMAIN geometries_)
    + Cardinality({ m \in {<<1, outputImage_>>, <<2, outputImageMemory_>>,
                            <<3, outputImageView_>>} : m[2] = "live" })
    + (IF stagingBuffer_.buffer = "live" THEN 1 ELSE 0)
    + Cardinality(initObjects)

\* The members that are buffers.
BufferMembers == {"sbtBuffer_", "cameraUBO_", "cameraBuffer_"}

\* C18: the destructor of an initialized backend waits for the GPU to be
\* idle before anything else, then releases in dependency order (TLAS,
\* BLAS, geometry, pipeline / SBT / output, device), releases every object
\* the instance holds, and leaves no buffer the instance created allocated.
C18_DestructorReleasesAllInOrder ==
    [][(lastOp'.op = "destructor" /\ initialized_) =>
          LET tr == lastOp'.trace IN
          /\ tr # <<>>
          /\ Head(tr) \in {EvIdle, EvWait}
          /\ \A i, j \in DOMAIN tr :
                i < j => ReleaseRank(tr[i]) <= ReleaseRank(tr[j])
          /\ CountEvents(tr, "release") = ObjectsHeld
          /\ leaked' \cap BufferMembers = {}]_vars

\* The same without the last conjunct: what the destructor does with the
\* objects the instance still refers to.
DestructorReleasesWhatIsHeld ==
    [][(lastOp'.op = "destructor" /\ initialized_) =>
          LET tr == lastOp'.trace IN
          /\ tr # <<>>
          /\ Head(tr) \in {EvIdle, EvWait}
          /\ \A i, j \in DOMAIN tr :
                i < j => ReleaseRank(tr[i]) <= ReleaseRank(tr[j])
          /\ CountEvents(tr, "release") = ObjectsHeld]_vars

\* C19: whenever the loop body of createTLAS or updateTLAS, of either
\* backend, converts an instance, the matrix it stores has exactly the rows
\* 0..2 and the columns 0..3, and its entry [row][col] is element
\* col*4 + row of the caller's column-major transform, so the input's
\* fourth row (elements 3, 7, 11, 15) is dropped and no other element is
\* moved or altered.
C19_TransformIsTransposedTop3Rows ==
    (instanceOut # <<>> /\ instanceOut.converted) =>
        LET m == instanceOut.record.transform
            t == instanceIn.transform
        IN  /\ DOMAIN m = 0..2
            /\ \A row \in 0..2 :
                   /\ DOMAIN m[row] = 0..3
                   /\ \A col \in 0..3 : m[row][col] = t[col * 4 + row + 1]

\* An instance with sixteen distinct elements has been converted by
\* updateTLAS of the DXR backend: the translation column of the input
\* (elements 12, 13, 14) is the last column of the stored matrix.
C19_Witness ==
    /\ instanceOut # <<>>
    /\ instanceOut.converted
    /\ instanceOut.op = "updateTLAS"
    /\ backend = "DXR"
    /\ instanceIn.transform = Distinct16
    /\ instanceOut.record.transform[0][3] = Distinct16[13]
    /\ instanceOut.record.transform[2][0] = Distinct16[3]

\* The SBT has been built in this state.
SBTBuilt == sbtRegions # <<>> /\ sbtRegions.built

RegionStarts ==
    {sbtRegions.raygen.deviceAddress, sbtRegions.miss.deviceAddress,
     sbtRegions.hit.deviceAddress}

\* C20: after the SBT is built, the start address of the ray-generation,
\* the miss and the hit-group region is each a multiple of the base
\* alignment of shader-table regions on that backend, whatever handle size,
\* alignments and buffer address the device reported.
C20_RegionStartsAreBaseAligned ==
    SBTBuilt => \A a \in RegionStarts : a % sbtDevice.baseAlignment = 0

\* The Vulkan backend alone meets C20: its region sizes are rounded up to
\* shaderGroupBaseAlignment before they are added to the buffer address.
VulkanRegionStartsAreBaseAligned ==
    (SBTBuilt /\ backend = "Vulkan") =>
        \A a \in RegionStarts : a % sbtDevice.baseAlignment = 0

\* The DXR backend places its three records on multiples of the shader
\* record alignment, one record size apart.
DXRRecordsAreRecordAligned ==
    (SBTBuilt /\ backend = "DXR") =>
        /\ \A a \in RegionStarts : a % SHADER_RECORD_ALIGNMENT = 0
        /\ sbtRegions.miss.deviceAddress
               = sbtRegions.raygen.deviceAddress + SHADER_RECORD_ALIGNMENT

\* A Vulkan SBT built from a handle smaller than the base alignment: the
\* rounding of the region size is what aligns the miss region.
VulkanSBTWitness ==
    /\ SBTBuilt
    /\ backend = "Vulkan"
    /\ sbtDevice.handleSize = 48
    /\ sbtDevice.handleAlignment = 16
    /\ sbtDevice.baseAlignment = 64
    /\ sbtRegions.miss.deviceAddress = sbtDevice.address + 64
    /\ sbtRegions.miss.stride = 48

\* ------------------------------------------------------------------ factory
VendorClasses == {"DXR", "Vulkan", "Metal"}

\* The compiled-in vendor classes whose initialize() has failed in a block.
FailedProbes == {probes[i].class : i \in {j \in 1..Len(probes) : ~probes[j].result}}

\* createRTBackend() has returned.
FactoryReturned ==
    /\ product # "crashed"
    /\ product # "none" \/ lastOp.op = "createRTBackend"

\* The process ended inside an initialize() the factory called.
FactoryCrashed == product = "crashed"

\* C11: createRTBackend never returns a null interface.  While it has not
\* returned, one of its steps can be taken and at most one block per
\* compiled-in class has run; once it has returned, the product is a
\* backend; and the product is the stub exactly when every compiled-in
\* vendor class was probed and failed to initialize.  The stub answers
\* getBackendType() with None and isSupported() with false.
C11_FactoryNeverReturnsNull ==
    /\ (~FactoryReturned /\ ~FactoryCrashed) => ENABLED FactoryNext
    /\ Len(probes) <= Cardinality(compiled)
    /\ FactoryReturned => product \in VendorClasses \cup {"Stub"}
    /\ FactoryReturned => (product = "Stub" <=> compiled \subseteq FailedProbes)
    /\ product = "Stub" =>
          /\ backend = "Stub"
          /\ lastOp.op = "getBackendType" => lastOp.result = "None"
          /\ lastOp.op = "isSupported" => lastOp.result = FALSE

\* On a build with DXR and Vulkan RT, both probes failed, the stub was
\* returned and has answered getBackendType().
C11_Witness ==
    /\ compiled = {"DXR", "Vulkan"}
    /\ product = "Stub"
    /\ FailedProbes = {"DXR", "Vulkan"}
    /\ lastOp.op = "getBackendType"
    /\ lastOp.result = "None"

\* The position of a class in the order of the blocks.
BlockIndex(class) == CHOOSE k \in 1..Len(ProbeOrder) : ProbeOrder[k] = class

\* isSupported() of the backend the factory returned.
ProductIsSupported ==
    CASE backend = "Vulkan" -> VulkanRTBackend_isSupported
      [] backend = "DXR" -> DXRBackend_isSupported
      [] backend = "Metal" -> MetalRTBackend_isSupported
      [] OTHER -> FALSE

\* C12: the vendor backends are probed one at a time in one fixed order
\* (each compiled-in class at most once, none skipped); every probe but the
\* last has failed, so nothing is constructed or initialized after a
\* success; a probe that succeeds is returned at once; and a vendor backend
\* that is returned is the last one probed, its initialize() returned true,
\* and its isSupported() is true.
C12_FirstSuccessIsReturned ==
    /\ \A i, j \in 1..Len(probes) :
           i < j => BlockIndex(probes[i].class) < BlockIndex(probes[j].class)
    /\ \A i \in 1..Len(probes) :
           /\ probes[i].class \in compiled
           /\ \A c \in compiled :
                  BlockIndex(c) < BlockIndex(probes[i].class) => c \in Probed
    /\ \A i \in 1..(Len(probes) - 1) : ~probes[i].result
    /\ (probes # <<>> /\ probes[Len(probes)].result) =>
           product = probes[Len(probes)].class
    /\ product \in VendorClasses =>
           /\ probes # <<>>
           /\ probes[Len(probes)] = [class |-> product, result |-> TRUE]
           /\ backend = product
           /\ ProductIsSupported

\* DXR failed, Vulkan RT initialized and was returned.
C12_Witness ==
    /\ compiled = {"DXR", "Vulkan"}
    /\ probes = <<[class |-> "DXR", result |-> FALSE],
                 [class |-> "Vulkan", result |-> TRUE]>>
    /\ product = "Vulkan"
    /\ ProductIsSupported

\* The selection order the header of rt_common.cpp documents, for the
\* platform the build is for, restricted to the compiled-in classes.
DocumentedOrder ==
    SelectSeq(IF "DXR" \in compiled THEN <<"DXR", "Vulkan">>
              ELSE IF "Metal" \in compiled THEN <<"Metal", "Vulkan">>
              ELSE <<"Vulkan">>,
              LAMBDA c : c \in compiled)

\* C13: the backends are probed in the documented order of the platform:
\* the i-th probe is of the i-th class of that order, and Vulkan RT is
\* returned on a build with Metal RT only after Metal RT was probed and
\* failed.
C13_DocumentedSelectionOrder ==
    /\ Len(probes) <= Len(DocumentedOrder)
    /\ \A i \in 1..Len(probes) : probes[i].class = DocumentedOrder[i]
    /\ (product = "Vulkan" /\ "Metal" \in compiled) => "Metal" \in FailedProbes

\* The order of the blocks is the documented one on the builds without
\* Metal RT (Windows and Linux).
DocumentedOrderWithoutMetal ==
    "Metal" \notin compiled =>
        /\ Len(probes) <= Len(DocumentedOrder)
        /\ \A i \in 1..Len(probes) : probes[i].class = DocumentedOrder[i]

\* The members the interface's calls could touch.
memberVars == <<initialized_, rtSupported_, initObjects, tableVars,
                counterVars, outputVars>>

\* C14: on the stub backend every call leaves every member as it was;
\* isSupported() returns false, getBackendType() returns None, every
\* create* returns the invalid handle {0, null}, and updateTLAS, destroy*
\* and traceRays return nothing and change nothing.
C14_StubDoesNothing ==
    [][(backend = "Stub" /\ backend' = "Stub") =>
          /\ UNCHANGED <<memberVars, factoryVars, leaked>>
          /\ lastOp'.op = "isSupported" => lastOp'.result = FALSE
          /\ lastOp'.op = "getBackendType" => lastOp'.result = "None"
          /\ lastOp'.op \in {"createGeometry", "createBLAS", "createTLAS"} =>
                 lastOp'.result = [_id |-> 0, _handle |-> NULL]
          /\ lastOp'.op \in {"updateTLAS", "destroyGeometry", "destroyBLAS",
                             "destroyTLAS", "traceRays"} =>
                 lastOp'.result = "void"
          /\ lastOp'.op \in {"isSupported", "getBackendType", "createGeometry",
                             "createBLAS", "createTLAS", "updateTLAS",
                             "destroyGeometry", "destroyBLAS", "destroyTLAS",
                             "traceRays"}]_vars

\* The stub has been asked to create a TLAS from an instance whose BLAS
\* handle looks valid, after earlier calls, and returned the invalid handle.
C14_Witness ==
    /\ backend = "Stub"
    /\ calls >= 2
    /\ lastOp.op = "createTLAS"
    /\ lastOp.arg # <<>>
    /\ lastOp.result = [_id |-> 0, _handle |-> NULL]
    /\ geometries_ = <<>> /\ blases_ = <<>> /\ tlases_ = <<>>

\* ------------------------------------------------------------------ C22
\* The build commands among the GPU events of the last call.
BuildEvents(tr) == {i \in DOMAIN tr : tr[i][1] = "build"}

\* C22: no zero-sized build is attempted.  Every build command a call
\* submits covers at least one geometry (BLAS) or one instance (TLAS), and
\* every BLAS in the table was built from at least one geometry; a
\* createBLAS whose handles are all null fails instead of building.
C22_NoZeroSizedBuild ==
    /\ \A i \in BuildEvents(lastOp.trace) : lastOp.trace[i][4] >= 1
    /\ \A id \in DOMAIN blases_ : Len(blases_[id].geometryIds) >= 1
    /\ (lastOp.op = "createBLAS" /\ lastOp.result # InvalidHandle)
          => \E i \in BuildEvents(lastOp.trace) : lastOp.trace[i][4] >= 1

\* The TLAS half holds: createTLAS returns at the first null BLAS pointer,
\* before any allocation, so each of its builds covers count >= 1 instances.
TLASBuildsCoverInstances ==
    \A i \in BuildEvents(lastOp.trace) :
        lastOp.trace[i][2] = "tlas" => lastOp.trace[i][4] >= 1

\* ------------------------------------------------------------------ C23
\* The step is a traceRays call on the instance, accepted or rejected.
TraceRaysCall == calls' = calls + 1 /\ lastOp'.op = "traceRays"

\* The instance count of every TLAS in the table.
InstanceCounts == [id \in DOMAIN tlases_ |-> tlases_[id].instanceCount]

\* C23: traceRays changes nothing of the resource model.  Every traceRays
\* call, whether it ran a frame or returned at a guard, leaves the three
\* tables, the three id counters, the instance count of every TLAS, the
\* members set by initialize() (the SBT buffer among them) and the lifecycle
\* flags as they were; and an initialized backend accepts a traceRays call
\* after any call, a traceRays included.
C23_TraceRaysChangesNoResource ==
    /\ [][TraceRaysCall =>
            /\ tableVars' = tableVars
            /\ counterVars' = counterVars
            /\ InstanceCounts' = InstanceCounts
            /\ initObjects' = initObjects
            /\ sbtRegions' = sbtRegions
            /\ initialized_' = initialized_
            /\ rtSupported_' = rtSupported_]_vars
    /\ []((CanCall /\ backend \in {"Vulkan", "DXR"})
            => ENABLED (VulkanRTBackend_traceRays \/ DXRBackend_traceRays))

\* A second frame at the extent of the one before, on a TLAS that is in the
\* table: traceRays ran twice in a row on an initialized backend.
C23_Witness ==
    /\ lastOp.op = "traceRays"
    /\ initialized_
    /\ outputWidth_ > 0
    /\ lastOp.trace = TraceFrame(outputWidth_, outputHeight_)
    /\ lastOp.arg.tlas._id \in DOMAIN tlases_
    /\ tlases_[lastOp.arg.tlas._id].instanceCount >= 1

\* ------------------------------------------------------------------ C25
\* The places of an event in a trace.
Places(tr, ev) == {i \in DOMAIN tr : tr[i] = ev}

\* C25: the scratch buffer of a build or refit outlives the GPU work that
\* uses it and does not outlive the call.  In every createBLAS, createTLAS
\* and updateTLAS call, no scratch buffer is released before the build
\* command is recorded, a release that follows the build also follows a
\* wait for the submitted build, and every scratch buffer the call created
\* has been released when it returns, whether it succeeded or failed.
C25_ScratchReleasedAfterCompletion ==
    lastOp.op \in {"createBLAS", "createTLAS", "updateTLAS"} =>
        LET tr == lastOp.trace IN
        /\ \A r \in Places(tr, EvRelease("scratch")), b \in BuildEvents(tr) :
              /\ b < r
              /\ \E s \in Places(tr, EvSubmit), w \in Places(tr, EvWait) :
                    b < s /\ s < w /\ w < r
        /\ Cardinality(Places(tr, EvCreate("scratch", TRUE)))
              = Cardinality(Places(tr, EvRelease("scratch")))
        /\ \A c \in Places(tr, EvCreate("scratch", TRUE)) :
              \E r \in Places(tr, EvRelease("scratch")) : c < r

\* A refit whose scratch buffer was created, used by the submitted update
\* and released after the wait.
C25_Witness ==
    /\ lastOp.op = "updateTLAS"
    /\ Places(lastOp.trace, EvCreate("scratch", TRUE)) # {}
    /\ Places(lastOp.trace, EvRelease("scratch")) # {}
    /\ BuildEvents(lastOp.trace) # {}

\* A createBLAS that failed after its scratch buffer was created released
\* the buffer without a build.
ScratchReleasedOnFailure ==
    /\ lastOp.op = "createBLAS"
    /\ lastOp.result = InvalidHandle
    /\ Places(lastOp.trace, EvRelease("scratch")) # {}
    /\ BuildEvents(lastOp.trace) = {}

\* ------------------------------------------------------------------ C26
\* The events of one build or refit command sequence as the shared
\* algorithm prescribes it: a single build command, a barrier on the
\* acceleration structure it wrote, then the submit.
BuildThenBarrier(tr) ==
    /\ Cardinality(BuildEvents(tr)) <= 1
    /\ \A b \in BuildEvents(tr) :
          /\ b + 2 \in DOMAIN tr
          /\ tr[b + 1] = EvBarrier(tr[b][2])
          /\ tr[b + 2] = EvSubmit

\* C26: every command sequence submitted for a BLAS build, a TLAS build or
\* a TLAS refit, on either backend, is a single build command followed by
\* an execution barrier on the acceleration structure, recorded before the
\* submit.
C26_BuildFollowedByBarrier ==
    lastOp.op \in {"createBLAS", "createTLAS", "updateTLAS"} =>
        BuildThenBarrier(lastOp.trace)

\* The DXR backend alone meets C26: each of its three build functions
\* records the UAV barrier between the build and ExecuteCommandLists.
DXRBuildFollowedByBarrier ==
    (backend = "DXR" /\ lastOp.op \in {"createBLAS", "createTLAS", "updateTLAS"})
        => BuildThenBarrier(lastOp.trace)

\* A DXR refit recorded its update and the barrier after it.
DXRBarrierWitness ==
    /\ backend = "DXR"
    /\ lastOp.op = "updateTLAS"
    /\ Places(lastOp.trace, EvBarrier("tlas")) # {}

\* On Vulkan every build and refit is submitted as a single command with no
\* barrier after it.
VulkanBuildsRecordNoBarrier ==
    (backend = "Vulkan" /\ lastOp.op \in {"createBLAS", "createTLAS", "updateTLAS"})
        => /\ Cardinality(BuildEvents(lastOp.trace)) <= 1
           /\ \A i \in DOMAIN lastOp.trace : lastOp.trace[i][1] # "barrier"

\* ------------------------------------------------------------------ C27
\* The step is an updateTLAS call naming a TLAS of the table with the
\* instance count that TLAS was created with.
RefitCall ==
    /\ calls' = calls + 1
    /\ lastOp'.op = "updateTLAS"
    /\ Present(tlases_, lastOp'.arg.tlas._id)
    /\ lastOp'.arg.count = tlases_[lastOp'.arg.tlas._id].instanceCount

\* The members of a TLAS record other than the contents of its instance
\* buffer.
KeptMembers(rec) == (DOMAIN rec) \ {"instances"}

\* C27: updateTLAS with a matching count is a refit.  It submits exactly one
\* build command, in update mode, over the TLAS's instance count; it creates
\* and releases nothing but the scratch buffer; the TLAS keeps its id, its
\* acceleration-structure object, device address, backing buffer,
\* instance-buffer allocation and instance count; every other record and
\* the counters are untouched.  Only the instance-buffer contents change.
C27_UpdateIsRefit ==
    [][RefitCall =>
         LET id == lastOp'.arg.tlas._id
             tr == lastOp'.trace
         IN
         /\ Cardinality(BuildEvents(tr)) = 1
         /\ \A b \in BuildEvents(tr) :
                tr[b] = EvBuild("tlas", "update", tlases_[id].instanceCount)
         /\ \A i \in DOMAIN tr :
                tr[i][1] \in {"create", "release"} => tr[i][2] = "scratch"
         /\ DOMAIN tlases_' = DOMAIN tlases_
         /\ \A other \in (DOMAIN tlases_) \ {id} : tlases_'[other] = tlases_[other]
         /\ KeptMembers(tlases_'[id]) = KeptMembers(tlases_[id])
         /\ \A m \in KeptMembers(tlases_[id]) : tlases_'[id][m] = tlases_[id][m]
         /\ Len(tlases_'[id].instances) = tlases_[id].instanceCount
         /\ geometries_' = geometries_
         /\ blases_' = blases_
         /\ counterVars' = counterVars]_vars

\* A TLAS created from a BLAS was refitted with an instance whose BLAS
\* handle is null: its instance buffer now holds the zeroed instance, its
\* instance count is still 1.
C27_Witness ==
    /\ lastOp.op = "updateTLAS"
    /\ BuildEvents(lastOp.trace) # {}
    /\ Present(tlases_, lastOp.arg.tlas._id)
    /\ tlases_[lastOp.arg.tlas._id].instanceCount = 1
    /\ tlases_[lastOp.arg.tlas._id].instances = <<ZeroInstance>>
    /\ tlases_[lastOp.arg.tlas._id].accelerationStructure = "live"

\* ------------------------------------------------------------------ C28
\* The step is a traceRays call that passes both guards, the backend is
\* initialized and the TLAS handle carries a pointer, and returns.
ValidatedTrace ==
    /\ calls' = calls + 1
    /\ lastOp'.op = "traceRays"
    /\ initialized_
    /\ lastOp'.arg.tlas._handle # NULL
    /\ lastOp'.result # "crashed"

\* The layout of the output image after the events tr, from layout: each
\* barrier on the image moves it to the layout it names.
LayoutAfter(tr, layout) ==
    LET barriers == {i \in DOMAIN tr :
                        tr[i] \in {EvBarrier("output.toCopySource"),
                                   EvBarrier("output.toGeneral")}}
        last == CHOOSE i \in barriers : \A j \in barriers : j <= i
    IN  IF barriers = {} THEN layout
        ELSE IF tr[last] = EvBarrier("output.toCopySource") THEN "copySource"
        ELSE "general"

\* The layout the output image is in before the commands of the call: a
\* VkImage the call created starts in VK_IMAGE_LAYOUT_UNDEFINED; a D3D12
\* texture is created in the UNORDERED_ACCESS state, and an image kept from
\* the previous frame is in its working layout.
CreatedLayout(tr) ==
    IF backend = "Vulkan" /\ Places(tr, EvCreate("outputImage", TRUE)) # {}
    THEN "undefined" ELSE "general"

\* C28: a traceRays call that passes validation records, as the last
\* commands of the call and in this order: the pipeline bind, the resource
\* bind, one dispatch of width x height x 1, a barrier making the output
\* image readable by the copy, the copy of the same extent into the readback
\* buffer, a barrier returning the image to its working layout, the submit
\* and the wait.  Nothing before them is a bind, a dispatch or a copy, so
\* the copy never precedes the dispatch; the dispatch finds the image in its
\* working layout and the call leaves it there.
C28_TraceCommandOrder ==
    [][ValidatedTrace =>
         LET tr == lastOp'.trace
             w == lastOp'.arg.width
             h == lastOp'.arg.height
             \* the place of the pipeline bind when the frame ends the trace
             k == Len(tr) - 7
             before == SubSeq(tr, 1, k - 1)
         IN
         /\ k >= 1
         /\ SubSeq(tr, k, Len(tr))
              = <<EvBind("pipeline"), EvBind("resources"), EvDispatch(w, h),
                  EvBarrier("output.toCopySource"), EvCopy(w, h),
                  EvBarrier("output.toGeneral"), EvSubmit, EvWait>>
         /\ \A i \in 1..(k - 1) : tr[i][1] \notin {"bind", "dispatch", "copy"}
         /\ LayoutAfter(before, CreatedLayout(tr)) = "general"
         /\ LayoutAfter(tr, CreatedLayout(tr)) = "general"]_vars

\* A DXR frame of 64 x 1 was dispatched and copied.
C28_Witness ==
    /\ lastOp.op = "traceRays"
    /\ backend = "DXR"
    /\ Places(lastOp.trace, EvDispatch(64, 1)) # {}
    /\ Places(lastOp.trace, EvCopy(64, 1)) # {}
    /\ lastExtent = <<64, 1>>

\* ------------------------------------------------------------------ C29
\* The last call performed a build, a refit or a trace on the GPU.
RanGPUOperation ==
    /\ lastOp.op \in {"createBLAS", "createTLAS", "updateTLAS", "traceRays"}
    /\ \E i \in DOMAIN lastOp.trace : lastOp.trace[i][1] \in {"build", "dispatch"}

\* The events tr hold exactly one command sequence: one submit, then one
\* wait.
OneSequence(tr) ==
    /\ Cardinality(Places(tr, EvSubmit)) = 1
    /\ Cardinality(Places(tr, EvWait)) = 1
    /\ \A s \in Places(tr, EvSubmit), w \in Places(tr, EvWait) : s < w

\* C29: every call that performs a build, a refit or a trace issues exactly
\* one command sequence, one submit followed by one wait, also when the
\* extent of a traceRays call differs from that of the call before.
C29_OneSequencePerCall ==
    RanGPUOperation => OneSequence(lastOp.trace)

\* Builds and refits on both backends, every DXR trace, and a Vulkan trace
\* at the extent of the frame before do issue exactly one sequence.
OneSequenceUnlessVulkanResize ==
    (/\ RanGPUOperation
     /\ ~(/\ backend = "Vulkan"
          /\ lastOp.op = "traceRays"
          /\ Places(lastOp.trace, EvCreate("stagingBuffer", TRUE))
               \cup Places(lastOp.trace, EvCreate("stagingBuffer", FALSE)) # {}))
        => OneSequence(lastOp.trace)

\* A DXR trace that resized the output issued one command sequence.
DXRResizeWitness ==
    /\ backend = "DXR"
    /\ lastOp.op = "traceRays"
    /\ Places(lastOp.trace, EvCreate("stagingBuffer", TRUE)) # {}
    /\ OneSequence(lastOp.trace)

\* ------------------------------------------------------------------ C30
\* No call releases an object that was already released: a handle member
\* that still holds a destroyed object is never passed to a destroy call.
NeverReleasedTwice ==
    \A i \in DOMAIN lastOp.trace : lastOp.trace[i][1] # "release-dangling"

\* No command is submitted on a released object: neither on the output image
\* or its view after they were destroyed, nor on an acceleration structure
\* or buffer of a record that was destroyed.
NeverUsedAfterRelease ==
    (\E i \in DOMAIN lastOp.trace : lastOp.trace[i][1] \in {"build", "dispatch"})
        => /\ ~lastOp.uaf
           /\ lastOp.op = "traceRays" =>
                 (outputImage_ # "dangling" /\ outputImageView_ # "dangling")

\* When the instance has been destroyed, no object it created is still
\* allocated.
NothingLeftAllocated ==
    lastOp.op = "destructor" => leaked = {}

\* C30: every GPU buffer, image and acceleration structure the backend
\* creates is released exactly once over any sequence of calls that ends
\* with the destruction of the backend: never twice, never used by a
\* command after its release, and not left allocated.
C30_ReleasedExactlyOnce ==
    /\ NeverReleasedTwice
    /\ NeverUsedAfterRelease
    /\ NothingLeftAllocated

\* The DXR backend never releases an object twice: its members are ComPtr,
\* which a failed re-creation leaves null.
DXRNeverReleasesTwice ==
    backend = "DXR" => NeverReleasedTwice

\* destroy* followed by the destructor does not release twice: apart from
\* the output members, every release of the destructor is of an object the
\* tables or initialize()'s members still hold.
DestructorReleasesTableObjectsOnce ==
    [][(lastOp'.op = "destructor" /\ initialized_) =>
          CountEvents(lastOp'.trace, "release") = ObjectsHeld]_vars

\* A destructor that followed a destroy call on a backend still holding
\* records released what was held.
DestroyThenDestructorWitness ==
    /\ lastOp.op = "destructor"
    /\ lastOp.trace # <<>>
    /\ \E t \in {"geometry", "blas", "tlas"} : destroyed[t] # {}
    /\ CountEvents(lastOp.trace, "release") > 0

\* ------------------------------------------------------------------ C21
\* The three regions in the order of the table: ray generation, miss, hit
\* group, with the name of the shader group each belongs to.
SBTRegionList == <<sbtRegions.raygen, sbtRegions.miss, sbtRegions.hit>>
SBTGroupNames == <<"raygen", "miss", "hit">>

\* The first byte after a region.
RegionEnd(r) == r.deviceAddress + r.size

\* C21: after the SBT is built, the byte ranges [address, address + size) of
\* the three regions are pairwise disjoint; each lies inside the one SBT
\* buffer, whose size is the sum of the three region sizes; and the first
\* handle-size bytes of the ray-generation, miss and hit-group region hold
\* the identifier of the ray-generation, miss and hit group respectively,
\* each written by a copy that stays inside its region.
C21_RegionsDisjointAndFilled ==
    SBTBuilt =>
        LET R == SBTRegionList
            base == sbtDevice.address
        IN
        /\ \A i, j \in 1..3 :
              i # j => (RegionEnd(R[i]) <= R[j].deviceAddress
                          \/ RegionEnd(R[j]) <= R[i].deviceAddress)
        /\ sbtRegions.sbtSize = R[1].size + R[2].size + R[3].size
        /\ \A i \in 1..3 :
              /\ R[i].size > 0
              /\ base <= R[i].deviceAddress
              /\ RegionEnd(R[i]) <= base + sbtRegions.sbtSize
        /\ Len(sbtRegions.copies) = 3
        /\ \A i \in 1..3 :
              /\ base + sbtRegions.copies[i].offset = R[i].deviceAddress
              /\ sbtRegions.copies[i].group = SBTGroupNames[i]
              /\ sbtRegions.copies[i].bytes = sbtDevice.handleSize
              /\ sbtRegions.copies[i].bytes <= R[i].size

\* A Vulkan SBT whose handles are smaller than the region size: the miss
\* identifier was copied 64 bytes into the buffer, not 16.
C21_Witness ==
    /\ SBTBuilt
    /\ backend = "Vulkan"
    /\ sbtDevice.handleSize = 16
    /\ sbtDevice.baseAlignment = 64
    /\ sbtRegions.copies[2] = SBTCopy(64, "miss", 16)
    /\ sbtRegions.miss.deviceAddress = sbtDevice.address + 64

\* A DXR SBT: the hit-group identifier is the third record.
DXRSBTCopiesWitness ==
    /\ SBTBuilt
    /\ backend = "DXR"
    /\ sbtRegions.copies[3] = SBTCopy(64, "hit", 32)

\* ------------------------------------------------------------------ C24
\* The id counter of each table.
NextIds == [geometry |-> nextGeometryId_, blas |-> nextBLASId_,
            tlas |-> nextTLASId_]

\* Whether the contract accepts a call, from the state before it and the
\* arguments alone.  Nothing here depends on the class of the backend.
ContractAccepts(op, arg) ==
    CASE op = "initialize" -> TRUE
      [] op = "createGeometry" -> initialized_
      [] op = "createBLAS" -> initialized_ /\ arg.count # 0
      [] op = "createTLAS" -> initialized_ /\ arg.count # 0 /\ ~arg.null
      [] op = "updateTLAS" ->
            /\ arg.tlas._id \in TableIds.tlas
            /\ arg.count = tlases_[arg.tlas._id].instanceCount
      [] op \in {"destroyGeometry", "destroyBLAS", "destroyTLAS"} ->
            arg._id \in TableIds[TableOf(op)]
      [] op = "traceRays" -> initialized_ /\ arg.tlas._handle # NULL

\* The one contract: what a call returns and what the tables and counters
\* hold after it, from the state before it, the arguments and whether every
\* GPU allocation of the call succeeded.
ContractSucceeds(op, arg, allocated) ==
    ContractAccepts(op, arg) /\ allocated

ContractResult(op, arg, allocated) ==
    CASE op \in CreateOps ->
            IF ContractSucceeds(op, arg, allocated)
            THEN MakeHandle(NextIds[TableOf(op)]) ELSE InvalidHandle
      [] op = "initialize" -> IF initialized_ THEN rtSupported_ ELSE allocated
      [] OTHER -> "void"

ContractIds(op, arg, allocated) ==
    CASE op \in CreateOps ->
            IF ContractSucceeds(op, arg, allocated)
            THEN [TableIds EXCEPT ![TableOf(op)] = @ \cup {NextIds[TableOf(op)]}]
            ELSE TableIds
      [] op \in DestroyOps -> [TableIds EXCEPT ![TableOf(op)] = @ \ {arg._id}]
      [] OTHER -> TableIds

ContractNext(op, arg, allocated) ==
    IF op \in CreateOps /\ ContractSucceeds(op, arg, allocated)
    THEN [NextIds EXCEPT ![TableOf(op)] = @ + 1]
    ELSE NextIds

\* The step is a public call on a backend instance that returned.
PublicCall ==
    /\ calls' = calls + 1
    /\ backend' # "crashed"
    /\ lastOp'.op \in {"initialize", "createGeometry", "createBLAS",
                       "createTLAS", "updateTLAS", "destroyGeometry",
                       "destroyBLAS", "destroyTLAS", "traceRays"}

\* Every GPU allocation the step made succeeded.
Allocated == ~HasFailedCreate(lastOp'.trace) /\ faults' = faults

\* The step went past the guards of the call: it erased a record, or, for
\* the other calls, it reached the GPU.
WentPastGuards ==
    CASE lastOp'.op = "initialize" -> TRUE
      [] lastOp'.op \in {"destroyGeometry", "destroyBLAS", "destroyTLAS"} ->
            TableIds' # TableIds
      [] OTHER -> lastOp'.trace # <<>>

\* C24: the Vulkan and the DXR backend present one contract.  Every public
\* call of either backend is accepted or rejected, returns, and leaves the
\* id sets of the three tables and the id counters exactly as the one
\* contract says, and the contract reads only the state before the call, the
\* arguments and whether the call's allocations succeeded, never the class
\* of the backend.  Two instances, one of each class, given the
\* same calls and the same allocation outcomes therefore return handles of
\* the same validity and id, hold the same ids, and accept and reject alike.
C24_BackendsFollowOneContract ==
    [][PublicCall =>
         LET op == lastOp'.op
             arg == lastOp'.arg
             allocated == Allocated
         IN
         /\ WentPastGuards = ContractAccepts(op, arg)
         /\ lastOp'.result = ContractResult(op, arg, allocated)
         /\ TableIds' = ContractIds(op, arg, allocated)
         /\ NextIds' = ContractNext(op, arg, allocated)]_vars

\* A DXR backend holds a geometry, a BLAS and a TLAS, each with the id 1,
\* after one more call that returned the invalid handle for a failed
\* allocation.
C24_Witness ==
    /\ backend = "DXR"
    /\ TableIds = [geometry |-> {1}, blas |-> {1}, tlas |-> {1}]
    /\ faults = 1
    /\ calls = 5

\* The same on a Vulkan backend.
VulkanContractWitness ==
    /\ backend = "Vulkan"
    /\ TableIds = [geometry |-> {1}, blas |-> {1}, tlas |-> {1}]
    /\ faults = 1
    /\ calls = 5

\* ------------------------------------------------------------------ C31
\* The step is a destroyBLAS call whose id is in the BLAS table.
DestroyPresentBLAS ==
    /\ calls' = calls + 1
    /\ lastOp'.op = "destroyBLAS"
    /\ lastOp'.arg._id \in DOMAIN blases_

\* C31: the backend does not keep a BLAS alive for the TLASes that instance
\* it.  destroyBLAS of an id that is in the table removes that record and
\* no other, releases its acceleration structure, and leaves every TLAS
\* record as it was, whether or not an instance of a TLAS refers to the
\* BLAS; when one does, the TLAS afterwards refers to a destroyed BLAS.
C31_DestroyBLASIgnoresReferences ==
    [][DestroyPresentBLAS =>
         LET id == lastOp'.arg._id IN
         /\ DOMAIN blases_' = (DOMAIN blases_) \ {id}
         /\ \A other \in DOMAIN blases_' : blases_'[other] = blases_[other]
         /\ CountOf(lastOp'.trace, "release", "blas.as") = 1
         /\ tlases_' = tlases_
         /\ (id \in ReferencedBLAS) =>
               (id \in ReferencedBLAS' /\ id \notin DOMAIN blases_')]_vars

\* destroyBLAS has just destroyed a BLAS that an instance of a TLAS in the
\* table refers to.
C31_Witness ==
    /\ lastOp.op = "destroyBLAS"
    /\ lastOp.trace # <<>>
    /\ lastOp.arg._id \in ReferencedBLAS
    /\ lastOp.arg._id \notin DOMAIN blases_
    /\ tlases_ # <<>>

\* ------------------------------------------------------------------ C32
\* The last call was a traceRays that recorded a dispatch.
Dispatched ==
    /\ lastOp.op = "traceRays"
    /\ \E i \in DOMAIN lastOp.trace : lastOp.trace[i][1] = "dispatch"

\* The output objects a dispatch writes and the copy reads exist: the image
\* (on Vulkan with its memory and view) and the readback buffer.
OutputExists ==
    /\ outputImage_ = "live"
    /\ stagingBuffer_.buffer = "live"
    /\ backend = "Vulkan" =>
          (outputImageMemory_ = "live" /\ outputImageView_ = "live")

\* C32: every dispatch traceRays submits runs against an existing output
\* image and an existing readback buffer of the extent of that call, on the
\* first call (a 0 x 0 call included) and after a call whose allocations
\* failed.
C32_DispatchHasOutput ==
    Dispatched =>
        /\ OutputExists
        /\ outputWidth_ = lastOp.arg.width
        /\ outputHeight_ = lastOp.arg.height
        /\ stagingBuffer_.size = lastOp.arg.width * lastOp.arg.height * 4

\* What does hold: after a dispatch the cached extent is the extent of the
\* call, and output objects that exist were created for that extent.
CachedExtentIsCallExtent ==
    Dispatched =>
        /\ outputWidth_ = lastOp.arg.width
        /\ outputHeight_ = lastOp.arg.height
        /\ stagingBuffer_.buffer = "live" =>
              stagingBuffer_.size = lastOp.arg.width * lastOp.arg.height * 4

\* The first traceRays ever made, with width = height = 0: no resize, no
\* output object, and the frame was recorded.
FirstTraceAtZeroExtent ==
    /\ Dispatched
    /\ lastOp.arg.width = 0
    /\ lastOp.arg.height = 0
    /\ lastOp.trace = TraceFrame(0, 0)
    /\ outputImage_ = "null"
    /\ stagingBuffer_.buffer = "null"

\* A frame recorded at the cached extent after the allocations of the
\* resize to that extent had failed: nothing was re-created.
TraceAfterFailedResize ==
    /\ Dispatched
    /\ lastOp.arg.width = 1
    /\ lastOp.trace = TraceFrame(1, 2)
    /\ outputImage_ # "live"

\* ------------------------------------------------------------------ C33
\* d3d12.h: the row pitch of a placed footprint is a multiple of 256 bytes.
D3D12_TEXTURE_DATA_PITCH_ALIGNMENT == 256

\* The row pitch of the destination of the image-to-buffer copy, in bytes.
\* DXR: PlacedFootprint.Footprint.RowPitch.
DXRBackend_copyRowPitch(width) ==
    ALIGN_UP(width * 4, D3D12_TEXTURE_DATA_PITCH_ALIGNMENT)

\* Vulkan: region.bufferRowLength = 0, rows tightly packed by imageExtent.
VulkanRTBackend_copyRowPitch(width) == width * 4

\* One past the last byte of the readback buffer the copy of a
\* width x height image addresses, from offset 0.
CopyEnd(rowPitch, width, height) ==
    IF width = 0 \/ height = 0 THEN 0
    ELSE rowPitch * (height - 1) + width * 4

\* The end of the copy of the frame of the last traceRays.
FrameCopyEnd ==
    CopyEnd(IF backend = "DXR" THEN DXRBackend_copyRowPitch(lastOp.arg.width)
            ELSE VulkanRTBackend_copyRowPitch(lastOp.arg.width),
            lastOp.arg.width, lastOp.arg.height)

\* C33: the image-to-buffer copy of every frame addresses only bytes inside
\* the readback buffer of width * height * 4 bytes: with the row pitch of the
\* backend, rowPitch * (height - 1) + width * 4 is at most the buffer size.
C33_CopyInsideReadbackBuffer ==
    Dispatched => FrameCopyEnd <= stagingBuffer_.size

\* What does hold: the Vulkan copy ends exactly at the end of the buffer,
\* and a DXR copy of one row whose width * 4 is a multiple of 256 fits.
VulkanCopyFillsBuffer ==
    (Dispatched /\ backend = "Vulkan") => FrameCopyEnd = stagingBuffer_.size

DXRAlignedRowFits ==
    (Dispatched /\ backend = "DXR" /\ lastOp.arg.height <= 1
        /\ lastOp.arg.width * 4 = DXRBackend_copyRowPitch(lastOp.arg.width))
        => FrameCopyEnd <= stagingBuffer_.size

\* A DXR frame of two rows of one texel: the second row starts at byte 256
\* of a buffer of 8 bytes.
DXRCopyPastBuffer ==
    /\ Dispatched
    /\ backend = "DXR"
    /\ lastOp.arg.width = 1
    /\ lastOp.arg.height = 2
    /\ stagingBuffer_ = StagingBuffer(TRUE, 8)
    /\ FrameCopyEnd = 260

\* ------------------------------------------------------------------ C34
\* The record written for the supplied instance carries what the caller
\* supplied: the transposed top three rows of the transform, the 24-bit
\* instance id, the mask and the device address of the BLAS.
CarriesSupplied(record, inst) ==
    /\ record.transform = ConvertTransform(inst.transform)
    /\ record.instanceCustomIndex = inst.instanceId % TwoPow24
    /\ record.mask = inst.mask
    /\ record.accelerationStructureReference = BlasDeviceAddress

\* C34: every instance record createTLAS or updateTLAS stores in the instance
\* buffer carries the transform, id, mask and BLAS device address of the
\* instance the caller supplied; an instance whose BLAS handle is null is
\* never stored, in particular not as a zeroed record with reference 0.
C34_StoredInstanceIsSupplied ==
    (instanceOut # <<>> /\ instanceOut.stored) =>
        /\ instanceIn.blas._handle # NULL
        /\ CarriesSupplied(instanceOut.record, instanceIn)

\* What does hold: createTLAS stores only converted instances, and
\* updateTLAS converts every instance whose BLAS pointer is not null.
CreateTLASStoresSupplied ==
    (instanceOut # <<>> /\ instanceOut.op = "createTLAS") =>
        /\ instanceOut.stored = (instanceIn.blas._handle # NULL)
        /\ instanceOut.stored =>
              CarriesSupplied(instanceOut.record, instanceIn)

UpdateTLASStoresNonNull ==
    (instanceOut # <<>> /\ instanceOut.op = "updateTLAS"
        /\ instanceIn.blas._handle # NULL) =>
        CarriesSupplied(instanceOut.record, instanceIn)

\* updateTLAS stored a zeroed record for an instance without a BLAS.
UpdateTLASStoredZeroRecord ==
    /\ instanceOut # <<>>
    /\ instanceOut.op = "updateTLAS"
    /\ instanceIn.blas._handle = NULL
    /\ instanceOut.stored
    /\ instanceOut.record = ZeroInstance
    /\ instanceOut.record.accelerationStructureReference = 0

\* ------------------------------------------------------------------ C35
\* The allocation of the scratch buffer of the last call failed.
ScratchFailed ==
    \E i \in DOMAIN lastOp.trace : lastOp.trace[i] = EvCreate("scratch", FALSE)

\* The last call recorded a build or refit, or submitted a command buffer.
SubmittedCommands ==
    \E i \in DOMAIN lastOp.trace :
        lastOp.trace[i][1] = "build" \/ lastOp.trace[i] = EvSubmit

\* C35: no build or refit is recorded with a scratch buffer whose allocation
\* failed: a call whose scratch allocation fails (updateTLAS included)
\* submits no GPU command.
C35_NoBuildWithoutScratch ==
    ScratchFailed => ~SubmittedCommands

\* What does hold: createBLAS and createTLAS return the invalid handle
\* without recording a build when their scratch allocation fails.
CreateStopsWithoutScratch ==
    (ScratchFailed /\ lastOp.op \in {"createBLAS", "createTLAS"}) =>
        /\ ~SubmittedCommands
        /\ lastOp.result = InvalidHandle

\* updateTLAS submitted the refit although its scratch allocation failed.
UpdateTLASBuiltWithoutScratch ==
    /\ lastOp.op = "updateTLAS"
    /\ ScratchFailed
    /\ \E i \in BuildEvents(lastOp.trace) :
          lastOp.trace[i][2] = "tlas" /\ lastOp.trace[i][3] = "update"
    /\ CountEvents(lastOp.trace, "submit") = 1

\* createBLAS or createTLAS stopped at a failed scratch allocation.
CreateStoppedWithoutScratch ==
    /\ lastOp.op \in {"createBLAS", "createTLAS"}
    /\ ScratchFailed

\* ------------------------------------------------------------------ C36
\* VulkanBuffer::deviceAddress / DXRBuffer::gpuAddress is 0 by default and
\* is the address of the allocation once a createBuffer that was asked for
\* the address has succeeded; destroyBuffer assigns 0 again.
HasDeviceAddress(buffer) == buffer.deviceAddress

\* The triangles description createBLAS fills for one geometry record:
\* indexed when indexCount > 0, with the address of the record's index
\* buffer as index data (nonzero or not), and the primitive count.
VulkanRTBackend_describeGeometry(geom) ==
    [indexed |-> geom.indexCount > 0,
     indexData |-> geom.indexCount > 0 /\ HasDeviceAddress(geom.indexBuffer),
     primitiveCount |-> IF geom.indexCount > 0 THEN geom.indexCount \div 3
                        ELSE geom.vertexCount \div 3]

\* DXR: Triangles.IndexBuffer and IndexCount are set when indexCount > 0.
DXRBackend_describeGeometry(geom) ==
    [indexed |-> geom.indexCount > 0,
     indexData |-> geom.indexCount > 0 /\ HasDeviceAddress(geom.indexBuffer),
     indexCount |-> IF geom.indexCount > 0 THEN geom.indexCount ELSE 0]

DescribeGeometry(geom) ==
    IF backend = "DXR" THEN DXRBackend_describeGeometry(geom)
    ELSE VulkanRTBackend_describeGeometry(geom)

\* C36: every geometry record in the table has indexCount > 0 only if it
\* owns an allocated index buffer (a createGeometry with null indices and
\* indexCount > 0 included), so the description createBLAS makes of a record
\* is never indexed with index-data address 0.
C36_IndexCountImpliesIndexBuffer ==
    \A id \in DOMAIN geometries_ :
        /\ geometries_[id].indexCount > 0 =>
              geometries_[id].indexBuffer.buffer = "live"
        /\ DescribeGeometry(geometries_[id]).indexed =>
              DescribeGeometry(geometries_[id]).indexData

\* What does hold: a record owns an index buffer only if indexCount > 0, and
\* a record created from non-null indices with indexCount > 0 owns one.
IndexBufferImpliesIndexCount ==
    \A id \in DOMAIN geometries_ :
        geometries_[id].indexBuffer.buffer = "live" =>
            /\ geometries_[id].indexCount > 0
            /\ geometries_[id].indexBuffer.size = geometries_[id].indexCount * 4

CreatedIndexedOwnsBuffer ==
    (lastOp.op = "createGeometry" /\ lastOp.result # InvalidHandle
        /\ lastOp.arg.indices /\ lastOp.arg.indexCount > 0) =>
        geometries_[lastOp.result._id].indexBuffer.buffer = "live"

\* createGeometry with null indices and indexCount = 3 stored a record
\* with indexCount 3 and no index buffer.
IndexCountWithoutBuffer ==
    /\ lastOp.op = "createGeometry"
    /\ lastOp.result # InvalidHandle
    /\ ~lastOp.arg.indices
    /\ lastOp.arg.indexCount = 3
    /\ geometries_[lastOp.result._id].indexCount = 3
    /\ geometries_[lastOp.result._id].indexBuffer = NullBuffer
    /\ DescribeGeometry(geometries_[lastOp.result._id]).indexed
    /\ ~DescribeGeometry(geometries_[lastOp.result._id]).indexData

\* A BLAS was built from such a record.
BLASFromIndexCountWithoutBuffer ==
    /\ lastOp.op = "createBLAS"
    /\ lastOp.result # InvalidHandle
    /\ \E id \in DOMAIN geometries_ :
          /\ geometries_[id].indexCount > 0
          /\ geometries_[id].indexBuffer = NullBuffer
          /\ \E i \in DOMAIN blases_[lastOp.result._id].geometryIds :
                blases_[lastOp.result._id].geometryIds[i] = id

\* ------------------------------------------------------------------ C37
\* The objects a call created successfully and the objects it released.
CreatedBy(tr, what) ==
    Cardinality({i \in DOMAIN tr : tr[i] = EvCreate(what, TRUE)})

ReleasedBy(tr, what) ==
    Cardinality({i \in DOMAIN tr : tr[i] = EvRelease(what)})

CreatedNames(tr) == {tr[i][2] : i \in {j \in DOMAIN tr : tr[j][1] = "create"}}

\* C37: a createGeometry, createBLAS or createTLAS call that returns the
\* invalid handle leaks nothing, whichever step failed: every object the
\* call created it also released, once, it submitted no command, and the
\* tables hold what they held before the call.
C37_FailedCreateLeaksNothing ==
    [][(lastOp'.op \in CreateOps /\ lastOp'.result = InvalidHandle) =>
          /\ \A what \in CreatedNames(lastOp'.trace) :
                ReleasedBy(lastOp'.trace, what) = CreatedBy(lastOp'.trace, what)
          /\ CountEvents(lastOp'.trace, "release")
                = Cardinality({i \in DOMAIN lastOp'.trace :
                                 lastOp'.trace[i][1] = "create"
                                 /\ lastOp'.trace[i][3]})
          /\ CountEvents(lastOp'.trace, "submit") = 0
          /\ UNCHANGED <<geometries_, blases_, tlases_, initObjects, leaked>>
      ]_vars

\* createBLAS failed at its scratch buffer after it had created the buffer
\* and the acceleration structure, and released both.
C37_Witness ==
    /\ lastOp.op = "createBLAS"
    /\ lastOp.result = InvalidHandle
    /\ backend = "Vulkan"
    /\ lastOp.trace = <<EvCreate("blas.buffer", TRUE), EvCreate("blas.as", TRUE),
                        EvCreate("scratch", FALSE),
                        EvRelease("blas.as"), EvRelease("blas.buffer")>>

\* ------------------------------------------------------------------ C38
\* C38: no object initialize() created is lost: the destruction of a backend
\* whose initialize() failed part-way releases every object the successful
\* steps had created, and an initialize() called again after a failure does
\* not store a new object over one it has not released.
C38_FailedInitializeObjectsReleased ==
    [][lastOp'.op \in {"initialize", "destructor"} => leaked' = leaked]_vars

\* What does hold: initialize() on a new instance overwrites nothing, and
\* the destructor of an initialized backend leaves nothing more allocated
\* than was lost before.
FirstInitializeOverwritesNothing ==
    [][(lastOp'.op = "initialize" /\ initObjects = {})
          => (leaked' \ leaked) \subseteq VulkanShaderModules]_vars

\* A first initialize() of a Vulkan backend failed in createRTPipeline()
\* before the pipeline was created: shader modules it had created are held
\* by nothing.
ShaderModulesLost ==
    /\ backend = "Vulkan"
    /\ calls = 1
    /\ lastOp.op = "initialize"
    /\ lastOp.result = FALSE
    /\ leaked \cap VulkanShaderModules # {}

\* A second initialize() of a DXR backend failed at the command queue: the
\* queue of the first run is released and the member is null.
SecondInitializeDroppedMember ==
    /\ backend = "DXR"
    /\ calls = 2
    /\ lastOp.op = "initialize"
    /\ lastOp.result = FALSE
    /\ faults = 2
    /\ "device_" \in initObjects
    /\ "commandQueue_" \notin initObjects
    /\ "commandAllocator_" \in initObjects

\* A second initialize() of a Vulkan backend failed at the ray tracing
\* pipeline, after a first one had failed at the camera buffer, and the
\* failed creation stored VK_NULL_HANDLE in rtPipeline_: the pipeline of the
\* first run is held by nothing, like the six objects created before it.
SecondInitializeNulledMember ==
    /\ backend = "Vulkan"
    /\ calls = 2
    /\ lastOp.op = "initialize"
    /\ lastOp.result = FALSE
    /\ faults = 2
    /\ initObjects = {"instance_", "device_", "commandPool_", "descriptorPool_",
                      "descriptorSetLayout_", "pipelineLayout_", "sbtBuffer_"}
    /\ leaked = {"instance_", "device_", "commandPool_", "descriptorPool_",
                 "descriptorSetLayout_", "pipelineLayout_", "rtPipeline_"}

InitializedDestructorReleasesMembers ==
    [][(lastOp'.op = "destructor" /\ initialized_) => leaked' = leaked]_vars

\* The destructor of a Vulkan backend whose initialize() failed after it had
\* created the instance and the device: it returned at once and both stay
\* allocated.
VulkanDestructorAfterFailedInitialize ==
    /\ lastOp.op = "destructor"
    /\ ~lastOp.arg.initialized
    /\ lastOp.trace = <<>>
    /\ {"instance_", "device_"} \subseteq leaked

\* A second initialize() stored new objects over the ones a failed first
\* run had created.
SecondInitializeOverwrote ==
    /\ lastOp.op = "initialize"
    /\ "instance_" \in leaked

\* On DXR the raw event handle of the fence is the member that is lost.
DXRFenceEventLost ==
    /\ lastOp.op = "destructor"
    /\ leaked = {"fenceEvent_"}

\* ------------------------------------------------------------------ C39
\* The ids table t has issued are 1, 2, ..., counter - 1, and the ids in the
\* table are among them.
CounterBoundsIds ==
    backend # "none" =>
    \A t \in DOMAIN NextIds :
        /\ issued[t] = 1..(NextIds[t] - 1)
        /\ \A id \in TableIds[t] : id < NextIds[t]

\* What a step does to the counter of table t: plus one when the step is a
\* create* of that table that succeeded, and then the id returned is the
\* value the counter had; nothing otherwise.
CounterStep(t) ==
    IF CreateSucceeded /\ TableOf(lastOp'.op) = t
    THEN /\ NextIds'[t] = NextIds[t] + 1
         /\ lastOp'.result._id = NextIds[t]
    ELSE NextIds'[t] = NextIds[t]

\* C39: the id counter of each table advances by exactly one on each
\* successful create* of that table and is unchanged by failed create*
\* calls, by create* calls of the other tables, by destroy*, updateTLAS and
\* traceRays; the ids a table issues are 1, 2, 3, ... in order of success and
\* every id in a table is smaller than the table's counter.
C39_CountersAdvanceByOne ==
    /\ []CounterBoundsIds
    /\ [][lastOp'.op # "destructor" =>
            \A t \in DOMAIN NextIds : CounterStep(t)]_vars

\* The geometry table has issued ids 1 and 2; the last call destroyed id 1
\* and left the counter at 3 with id 2 in the table.
C39_Witness ==
    /\ nextGeometryId_ = 3
    /\ issued.geometry = {1, 2}
    /\ lastOp.op = "destroyGeometry"
    /\ lastOp.arg._id = 1
    /\ TableIds.geometry = {2}
    /\ nextBLASId_ = 1

\* A createBLAS failed after a createGeometry had succeeded: the BLAS
\* counter stayed at 1.
FailedCreateKeptCounter ==
    /\ lastOp.op = "createBLAS"
    /\ lastOp.result = InvalidHandle
    /\ HasFailedCreate(lastOp.trace)
    /\ nextBLASId_ = 1
    /\ nextGeometryId_ = 2
====
